---- MODULE Spec2Model ----
(***************************************************************************)
(* A model of the search-and-ranking engine of the open-source issue       *)
(* finder: the scorer, the query parser's degraded fallback, the override  *)
(* normaliser, the filter compiler, the ranker and the paginator of        *)
(* backend/app/services/search_engine.py, query_parser.py and              *)
(* backend/app/routes/search.py.                                           *)
(*                                                                         *)
(* Numbers.  A similarity is the rational n/SimSteps.  A combined score is *)
(* kept as an integer count of 1/ScoreScale (round(x, 4) in the source),   *)
(* computed exactly over the rationals and rounded half to even.  The      *)
(* source computes in binary floating point; the two agree except within   *)
(* 1e-12 of a rounding tie, and no input of the model is a tie.            *)
(*                                                                         *)
(* Time.  Instants are integers counted in ticks, TicksPerDay to the day;  *)
(* timedelta.days is the floor of a difference divided by a day.           *)
(*                                                                         *)
(* Strings.  An ISO timestamp string is the record [t, suffix]: the        *)
(* instant it denotes and how the text ends: "Z", "+00:00", "" (no zone)   *)
(* or "?" (text that is no timestamp at all).                              *)
(***************************************************************************)
EXTENDS Integers, Sequences, FiniteSets, TLC

VARIABLES
    pc,           \* where the modelled call stands
    now,          \* datetime.now(timezone.utc) of the call
    score_in,     \* arguments of _calculate_combined_score
    score_out,    \* its return value
    query,        \* the SearchQuery of the request
    llm,          \* what the query-understanding call does for this request
    parse_out,    \* what QueryParser.parse returned or raised
    upstream,     \* how the embedding provider and the vector index behave
    index,        \* the records of the vector index, as it ranks them
    engine_out,   \* what SearchEngine.search returned or raised
    response,     \* the HTTP response of the search route
    ingestion_status,  \* the module-level dict of routes/ingest.py
    tasks,        \* the run_ingestion background tasks, in the order accepted
    ingest_replies,    \* the status codes answered by POST /api/ingest/start
    tracked,      \* the rows of the table tracked_issues, by id
    cron,         \* the run of scripts/verify_prs.py, if one is under way
    track_reply,  \* the last answer of a route of routes/issues.py
    in_flight     \* the track requests between their check and their insert

scoreVars == <<score_in, score_out>>
searchVars == <<upstream, index, engine_out, response>>
ingestVars == <<ingestion_status, tasks, ingest_replies>>
trackVars == <<tracked, cron, track_reply, in_flight>>
backgroundVars == <<ingestVars, trackVars>>
vars == <<pc, now, score_in, score_out, query, llm, parse_out,
          upstream, index, engine_out, response,
          ingestion_status, tasks, ingest_replies, tracked, cron, track_reply,
          in_flight>>

\* Optional values: Python's None is the empty tuple, a value v is <<v>>
None == <<>>
Some(v) == <<v>>

\* routes/ingest.py line 31, and a database with no tracked issue and no
\* verification run: the state the search routes leave alone
IngestIdle == [running |-> FALSE, message |-> "No ingestion in progress"]

CronIdle == [phase |-> "idle", pending |-> <<>>, runs |-> 0]

BackgroundInit ==
    /\ ingestion_status = IngestIdle
    /\ tasks = <<>>
    /\ ingest_replies = <<>>
    /\ tracked = <<>>
    /\ cron = CronIdle
    /\ track_reply = None
    /\ in_flight = <<>>

---------------------------------------------------------------------------
(* Bounds of the model *)

SimSteps == 4
TicksPerDay == 2

(* Program constants *)

MAX_STARS == 500000
MAX_AGE_DAYS == 365
W_SEMANTIC == 70
W_RECENCY == 30
W_STARS == 0
ScoreScale == 10000

---------------------------------------------------------------------------
(* Exact arithmetic *)

Min(a, b) == IF a <= b THEN a ELSE b
Max(a, b) == IF a >= b THEN a ELSE b

RECURSIVE GCD(_, _)
GCD(a, b) == IF b = 0 THEN a ELSE GCD(b, a % b)

\* the rational n/d in lowest terms, d > 0
Frac(n, d) ==
    LET g == GCD(IF n < 0 THEN -n ELSE n, d)
    IN  [n |-> n \div g, d |-> d \div g]

\* round-half-to-even of n/d, the rounding of Python's round()
RoundHalfEven(n, d) ==
    LET q == n \div d
        r == n % d
    IN  IF 2 * r > d THEN q + 1
        ELSE IF 2 * r < d THEN q
        ELSE IF q % 2 = 0 THEN q ELSE q + 1

\* round-half-to-even of a + b + c, three rationals in lowest terms
RoundSum3(a, b, c) ==
    LET whole == (a.n \div a.d) + (b.n \div b.d) + (c.n \div c.d)
        den   == a.d * b.d * c.d
        rest  == (a.n % a.d) * b.d * c.d
                 + (b.n % b.d) * a.d * c.d
                 + (c.n % c.d) * a.d * b.d
    IN  whole + RoundHalfEven(rest, den)

---------------------------------------------------------------------------
(* Timestamps *)

IsoSuffixes == {"Z", "+00:00", "", "?"}

\* datetime.fromisoformat(s.replace('Z', '+00:00')): a ValueError for text that
\* is no timestamp, an aware datetime for a zone suffix, a naive one without
fromisoformat(s) ==
    LET text == IF s.suffix = "Z" THEN [s EXCEPT !.suffix = "+00:00"] ELSE s
    IN  IF text.suffix = "?" THEN [ok |-> FALSE, aware |-> FALSE, t |-> 0]
        ELSE [ok |-> TRUE, aware |-> text.suffix = "+00:00", t |-> text.t]

\* (now - updated).days; aware minus naive raises TypeError
age_days(updated, at) == (at - updated.t) \div TicksPerDay

\* lines 192-198: the try block and its bare except
recency_score_unclamped(updated_at, at) ==
    LET updated == fromisoformat(updated_at)
    IN  IF updated.ok /\ updated.aware
        THEN Frac(MAX_AGE_DAYS - age_days(updated, at), MAX_AGE_DAYS)
        ELSE Frac(1, 2)

recency_score(updated_at, at) ==
    LET updated == fromisoformat(updated_at)
    IN  IF updated.ok /\ updated.aware
        THEN Frac(Max(0, MAX_AGE_DAYS - age_days(updated, at)), MAX_AGE_DAYS)
        ELSE Frac(1, 2)

\* line 190
stars_score(stars) == Frac(Min(stars, MAX_STARS), MAX_STARS)

\* the weighted sum with the weights of the docstring (40/35/25)
calculate_combined_score_docstring(semantic_score, stars, updated_at, at) ==
    RoundSum3(
        Frac((ScoreScale \div 100) * 40 * semantic_score, SimSteps),
        LET r == recency_score(updated_at, at)
        IN  Frac((ScoreScale \div 100) * 35 * r.n, r.d),
        LET s == stars_score(stars)
        IN  Frac((ScoreScale \div 100) * 25 * s.n, s.d))

\* lines 175-210: round(0.70*semantic + 0.30*recency + 0.00*stars, 4), in
\* units of 1/ScoreScale
calculate_combined_score(semantic_score, stars, updated_at, at) ==
    RoundSum3(
        Frac((ScoreScale \div 100) * W_SEMANTIC * semantic_score, SimSteps),
        LET r == recency_score(updated_at, at)
        IN  Frac((ScoreScale \div 100) * W_RECENCY * r.n, r.d),
        LET s == stars_score(stars)
        IN  Frac((ScoreScale \div 100) * W_STARS * s.n, s.d))

---------------------------------------------------------------------------
(* Inputs *)

Similarities == 0 .. SimSteps

StarCounts == {0, 1500, MAX_STARS \div 2, MAX_STARS, MAX_STARS + 100000}

Nows == {3 * MAX_AGE_DAYS * TicksPerDay, 3 * MAX_AGE_DAYS * TicksPerDay + 1}

\* how long before the instant at a timestamp lies, in ticks: later, equal,
\* around a day, around MAX_AGE_DAYS, far in the past
AgeTicks ==
    {-TicksPerDay - 1, -1, 0, 1, TicksPerDay,
     MAX_AGE_DAYS * TicksPerDay - 1, MAX_AGE_DAYS * TicksPerDay,
     MAX_AGE_DAYS * TicksPerDay + 1, 2 * MAX_AGE_DAYS * TicksPerDay}

Timestamps(at) ==
    {[t |-> at - a, suffix |-> x] : a \in AgeTicks, x \in {"Z", "+00:00", ""}}
    \cup {[t |-> 0, suffix |-> "?"]}

---------------------------------------------------------------------------
(* The scorer on its own *)

InitScore ==
    /\ pc = "score"
    /\ now \in Nows
    /\ score_in \in [semantic_score : Similarities,
                     stars : StarCounts,
                     updated_at : Timestamps(now)]
    /\ score_out = None
    /\ query = None
    /\ llm = None
    /\ parse_out = None
    /\ upstream = None
    /\ index = <<>>
    /\ engine_out = None
    /\ response = None
    /\ BackgroundInit

ScoreCandidate ==
    /\ pc = "score"
    /\ score_out' = calculate_combined_score(
                        score_in.semantic_score, score_in.stars,
                        score_in.updated_at, now)
    /\ pc' = "scored"
    /\ UNCHANGED <<backgroundVars, now, score_in, query, llm, parse_out, searchVars>>

NextScore == ScoreCandidate

SpecScore == InitScore /\ [][NextScore]_vars

---------------------------------------------------------------------------
(* Properties of the scorer, checked under SpecScore *)

Scored == pc = "scored"

ScoredAware ==
    /\ Scored
    /\ fromisoformat(score_in.updated_at).ok
    /\ fromisoformat(score_in.updated_at).aware

ScoredAge == (now - score_in.updated_at.t) \div TicksPerDay

\* C4: the combined score returned for a similarity in [0,1], a non-negative
\* star count and any updated_at (unparseable, earlier or later than now)
\* lies in [0,1].
C4_ScoreInUnitInterval ==
    Scored => (0 <= score_out /\ score_out <= ScoreScale)

---------------------------------------------------------------------------
(* The query parser: QueryParser.parse *)

SortByLiteral == {"newest", "recently_discussed", "relevance", "stars"}
DifficultyLiteral == {"beginner", "intermediate", "advanced"}

ParsedQueryFields ==
    {"semantic_query", "language", "min_stars", "max_stars", "labels",
     "difficulty", "sort_by", "days_ago", "unassigned_only", "topics"}

\* ParsedQuery(semantic_query=text): every other field at its default
ParsedQueryDefaults(text) ==
    [semantic_query |-> text, language |-> None, min_stars |-> None,
     max_stars |-> None, labels |-> None, difficulty |-> None,
     sort_by |-> "relevance", days_ago |-> None, unassigned_only |-> FALSE,
     topics |-> None]

\* A JSON object maps each key to <<>> when the key is absent and to <<v>> when
\* it is present, v being None for null.  dict.get(key, default):
dict_get(obj, key, default) == IF obj[key] = <<>> THEN default ELSE obj[key][1]

\* the field types of ParsedQuery that reject a value: semantic_query: str,
\* difficulty and sort_by: Literal[...], unassigned_only: bool
ParsedQuery_validate(f) ==
    /\ f.semantic_query # None
    /\ f.difficulty # None => f.difficulty[1] \in DifficultyLiteral
    /\ f.sort_by # None
    /\ f.sort_by[1] \in SortByLiteral
    /\ f.unassigned_only # None

\* lines 87-92: strip(), then for a text that starts with a code fence the part
\* between the first two fences, less a leading "json"; lead is what is left
\* in front of the body.  A text's fence is "" (none), "fence" (three
\* backquotes), "fence json" or "fence JSON" (three backquotes and that word)
strip_code_fence(text) ==
    IF text.fence = "" THEN [lead |-> "", body |-> text.body, obj |-> text.obj]
    ELSE LET info == IF text.fence = "fence json" THEN "json"
                     ELSE IF text.fence = "fence JSON" THEN "JSON"
                     ELSE ""
         IN  [lead |-> IF info = "json" THEN "" ELSE info,
              body |-> text.body, obj |-> text.obj]

\* json.loads: JSONDecodeError unless the whole text is one JSON value
json_loads(text) ==
    IF text.lead # "" \/ text.body = "prose"
    THEN [ok |-> FALSE, type |-> "", obj |-> None]
    ELSE [ok |-> TRUE, type |-> text.body, obj |-> text.obj]

\* lines 77-107, the body of the try: the exception raised ("" for none) and
\* the value returned
parse_try(text, reply) ==
    IF reply.call = "raises"
    THEN [exc |-> "Exception", value |-> None]
    ELSE
        LET loaded == json_loads(strip_code_fence(reply.text))
            obj == loaded.obj
            fields ==
                [semantic_query  |-> dict_get(obj, "semantic_query", Some(text)),
                 language        |-> dict_get(obj, "language", None),
                 min_stars       |-> dict_get(obj, "min_stars", None),
                 max_stars       |-> dict_get(obj, "max_stars", None),
                 labels          |-> dict_get(obj, "labels", None),
                 difficulty      |-> dict_get(obj, "difficulty", None),
                 sort_by         |-> dict_get(obj, "sort_by", Some("relevance")),
                 days_ago        |-> dict_get(obj, "days_ago", None),
                 unassigned_only |-> dict_get(obj, "unassigned_only", Some(FALSE)),
                 topics          |-> dict_get(obj, "topics", None)]
        IN  IF ~loaded.ok
            THEN [exc |-> "JSONDecodeError", value |-> None]
            ELSE IF loaded.type # "object"
            THEN [exc |-> "AttributeError", value |-> None]
            ELSE IF ~ParsedQuery_validate(fields)
            THEN [exc |-> "ValidationError", value |-> None]
            ELSE [exc |-> "",
                  value |-> [fields EXCEPT
                                !.semantic_query = fields.semantic_query[1],
                                !.sort_by = fields.sort_by[1],
                                !.unassigned_only = fields.unassigned_only[1]]]

\* parse with only its first handler, except json.JSONDecodeError
parse_decode_errors_only(text, reply) ==
    LET tried == parse_try(text, reply)
    IN  IF tried.exc = "" THEN [raised |-> FALSE, value |-> tried.value]
        ELSE IF tried.exc = "JSONDecodeError"
        THEN [raised |-> FALSE, value |-> ParsedQueryDefaults(text)]
        ELSE [raised |-> TRUE, value |-> None]

\* lines 70-114: both handlers return ParsedQuery(semantic_query=query), so
\* the call never raises and the retry decorator never retries
parse(text, reply) ==
    LET tried == parse_try(text, reply)
    IN  IF tried.exc = "" THEN [raised |-> FALSE, value |-> tried.value]
        ELSE [raised |-> FALSE, value |-> ParsedQueryDefaults(text)]

---------------------------------------------------------------------------
(* Inputs of the parser *)

QueryTexts == {"beginner python issues", "cli tools"}

Absent == <<>>
Present(v) == <<v>>

LlmObjects ==
    [semantic_query  : {Absent, Present(None), Present(Some("contributions"))},
     language        : {Present(None), Present(Some("Python"))},
     min_stars       : {Present(None), Present(Some(1000))},
     max_stars       : {Absent, Present(Some(50))},
     labels          : {Present(None), Present(Some(<<"good first issue">>))},
     difficulty      : {Present(None), Present(Some("beginner")),
                        Present(Some("expert"))},
     sort_by         : {Absent, Present(None), Present(Some("relevance")),
                        Present(Some("stars")), Present(Some("recency"))},
     days_ago        : {Present(None), Present(Some(7))},
     unassigned_only : {Absent, Present(None), Present(Some(TRUE))},
     topics          : {Present(None), Present(Some(<<"cli">>))}]

NoObject == [k \in ParsedQueryFields |-> Absent]

LlmTexts ==
    [fence : {"", "fence", "fence json", "fence JSON"}, body : {"object"}, obj : LlmObjects]
    \cup [fence : {"", "fence json"}, body : {"prose", "array"}, obj : {NoObject}]

LlmReplies ==
    [call : {"ok"}, text : LlmTexts]
    \cup {[call |-> "raises",
           text |-> [fence |-> "", body |-> "prose", obj |-> NoObject]]}

SearchQueryDefaults(text) ==
    [query |-> text, limit |-> 20, page |-> 1, language |-> None,
     labels |-> None, sort_by |-> None, days_ago |-> None,
     unassigned_only |-> FALSE]

---------------------------------------------------------------------------
(* The parser on its own *)

InitParse ==
    /\ pc = "parse"
    /\ now \in {3 * MAX_AGE_DAYS * TicksPerDay}
    /\ score_in = None
    /\ score_out = None
    /\ query \in {SearchQueryDefaults(text) : text \in QueryTexts}
    /\ llm \in LlmReplies
    /\ parse_out = None
    /\ upstream = None
    /\ index = <<>>
    /\ engine_out = None
    /\ response = None
    /\ BackgroundInit

ParseQuery ==
    /\ pc = "parse"
    /\ parse_out' = parse(query.query, llm)
    /\ pc' = "parsed"
    /\ UNCHANGED <<backgroundVars, now, scoreVars, query, llm, searchVars>>

NextParse == ParseQuery

SpecParse == InitParse /\ [][NextParse]_vars

---------------------------------------------------------------------------
(* Properties of the parser, checked under SpecParse *)

\* the reply is no well-formed ParsedQuery-shaped JSON object: the call
\* failed, the text is not JSON, the JSON is no object, or a field value is
\* one the ParsedQuery schema rejects
LlmMalformed ==
    \/ llm.call = "raises"
    \/ llm.text.fence = "fence JSON"
    \/ llm.text.body \in {"prose", "array"}
    \/ llm.text.obj.semantic_query = Present(None)
    \/ llm.text.obj.sort_by = Present(None)
    \/ /\ llm.text.obj.sort_by # Absent
       /\ llm.text.obj.sort_by[1] # None
       /\ llm.text.obj.sort_by[1][1] \notin SortByLiteral
    \/ /\ llm.text.obj.difficulty # Absent
       /\ llm.text.obj.difficulty[1] # None
       /\ llm.text.obj.difficulty[1][1] \notin DifficultyLiteral
    \/ llm.text.obj.unassigned_only = Present(None)

\* C9: parse never raises, and for a failed call or malformed output returns
\* the raw text as semantic_query with every other field unset.
C9_ParseFallsBack ==
    pc = "parsed" =>
        /\ parse_out.raised = FALSE
        /\ LlmMalformed =>
              /\ parse_out.value.semantic_query = query.query
              /\ parse_out.value.language = None
              /\ parse_out.value.min_stars = None
              /\ parse_out.value.max_stars = None
              /\ parse_out.value.labels = None
              /\ parse_out.value.difficulty = None
              /\ parse_out.value.days_ago = None
              /\ parse_out.value.topics = None
              /\ parse_out.value.sort_by = "relevance"
              /\ parse_out.value.unassigned_only = FALSE

C9_Witness ==
    /\ pc = "parsed"
    /\ llm.call = "ok"
    /\ llm.text.body = "object"
    /\ llm.text.fence = ""
    /\ llm.text.obj.difficulty = Present(Some("expert"))
    /\ llm.text.obj.language = Present(Some("Python"))
    /\ parse_out.value.language = None

---------------------------------------------------------------------------
(* Strings and lists as the search engine uses them *)

\* str.lower() on the strings of the model
Lower(str) ==
    CASE str = "Good First Issue" -> "good first issue"
      [] str = "Help Wanted" -> "help wanted"
      [] str = "Triage" -> "triage"
      [] str = "CLI" -> "cli"
      [] str = "All" -> "all"
      [] str = "ALL" -> "all"
      [] str = "Python" -> "python"
      [] str = "Go" -> "go"
      [] str = "Bob" -> "bob"
      [] OTHER -> str

\* truth value of an optional string, number or list: None and the empty or
\* zero value are false
TruthyStr(o) == o # None /\ o[1] # ""
TruthyNum(o) == o # None /\ o[1] # 0
TruthyList(o) == o # None /\ Len(o[1]) > 0

Range(seq) == {seq[i] : i \in 1 .. Len(seq)}

\* the order of str on timestamp strings: the fixed-width date and time
\* first, then the zone suffix ("" < "+00:00" < "Z"); text that is no
\* timestamp starts with a letter and sorts after every digit
SuffixRank(x) == CASE x = "" -> 0 [] x = "+00:00" -> 1 [] x = "Z" -> 2 [] OTHER -> 3

StrLess(a, b) ==
    IF a.suffix = "?" THEN FALSE
    ELSE IF b.suffix = "?" THEN TRUE
    ELSE \/ a.t < b.t
         \/ a.t = b.t /\ SuffixRank(a.suffix) < SuffixRank(b.suffix)

\* key(a) < key(b) for the sort keys of the engine
KeyLess(a, b, key) ==
    CASE key = "repo_stars" -> a.repo_stars < b.repo_stars
      [] key = "score" -> a.score < b.score
      [] key = "updated_at" -> StrLess(a.updated_at, b.updated_at)
      [] key = "created_at" -> StrLess(a.created_at, b.created_at)

\* an insertion that puts the new element before the elements of equal key
RECURSIVE InsertDescBeforeEqual(_, _, _)
InsertDescBeforeEqual(sorted, x, key) ==
    IF sorted = <<>> THEN <<x>>
    ELSE IF ~KeyLess(x, Head(sorted), key) THEN <<x>> \o sorted
    ELSE <<Head(sorted)>> \o InsertDescBeforeEqual(Tail(sorted), x, key)

\* list.sort(key=..., reverse=True): descending and stable, elements with
\* equal keys keep their order
RECURSIVE InsertDesc(_, _, _)
InsertDesc(sorted, x, key) ==
    IF sorted = <<>> THEN <<x>>
    ELSE IF KeyLess(Head(sorted), x, key) THEN <<x>> \o sorted
    ELSE <<Head(sorted)>> \o InsertDesc(Tail(sorted), x, key)

RECURSIVE SortDesc(_, _)
SortDesc(seq, key) ==
    IF seq = <<>> THEN <<>>
    ELSE InsertDesc(SortDesc(SubSeq(seq, 1, Len(seq) - 1), key), seq[Len(seq)], key)

\* seq[start:end] of Python, negative indices counted from the end
PySlice(seq, start, end) ==
    LET n == Len(seq)
        norm(i) == IF i < 0 THEN Max(i + n, 0) ELSE Min(i, n)
    IN  IF norm(start) >= norm(end) THEN <<>>
        ELSE SubSeq(seq, norm(start) + 1, norm(end))

---------------------------------------------------------------------------
(* The filter compiler: SearchEngine._build_filter *)

Clause(field, op, value) == [field |-> field, op |-> op, value |-> value]

TypeClause == Clause("type", "$ne", "stats")

\* the label clauses with the labels compared as they are written
RECURSIVE label_conditions_case_sensitive(_)
label_conditions_case_sensitive(labels) ==
    IF labels = <<>> THEN <<>>
    ELSE (IF Head(labels) = "good first issue"
          THEN <<Clause("is_good_first_issue", "$eq", TRUE)>>
          ELSE IF Head(labels) = "help wanted"
          THEN <<Clause("is_help_wanted", "$eq", TRUE)>>
          ELSE <<>>)
         \o label_conditions_case_sensitive(Tail(labels))

\* lines 236-243: one clause per label of the fixed vocabulary
RECURSIVE label_conditions(_)
label_conditions(labels) ==
    IF labels = <<>> THEN <<>>
    ELSE LET label_lower == Lower(Head(labels))
         IN  (IF label_lower = "good first issue"
              THEN <<Clause("is_good_first_issue", "$eq", TRUE)>>
              ELSE IF label_lower = "help wanted"
              THEN <<Clause("is_help_wanted", "$eq", TRUE)>>
              ELSE <<>>)
             \o label_conditions(Tail(labels))

\* the conditions of _build_filter, lines 215-265
filter_conditions(parsed, at) ==
    <<TypeClause>>
    \o (IF TruthyStr(parsed.language)
        THEN <<Clause("language", "$eq", parsed.language[1])>> ELSE <<>>)
    \o (IF TruthyNum(parsed.min_stars)
        THEN <<Clause("repo_stars", "$gte", parsed.min_stars[1])>> ELSE <<>>)
    \o (IF TruthyNum(parsed.max_stars)
        THEN <<Clause("repo_stars", "$lte", parsed.max_stars[1])>> ELSE <<>>)
    \o (IF TruthyList(parsed.labels)
        THEN label_conditions(parsed.labels[1]) ELSE <<>>)
    \o (IF parsed.unassigned_only
        THEN <<Clause("is_assigned", "$eq", FALSE)>> ELSE <<>>)
    \o (IF TruthyNum(parsed.days_ago)
        THEN <<Clause("updated_at_ts", "$gte",
                      at - parsed.days_ago[1] * TicksPerDay)>>
        ELSE <<>>)
    \o (IF parsed.difficulty = Some("beginner")
        THEN <<Clause("$or", "$or",
                      <<Clause("is_good_first_issue", "$eq", TRUE),
                        Clause("is_help_wanted", "$eq", TRUE)>>)>>
        ELSE <<>>)

\* the filter always wrapped in $and, a single condition too
build_filter_always_and(parsed, at) ==
    Clause("$and", "$and", filter_conditions(parsed, at))

\* lines 212-273
build_filter(parsed, at) ==
    LET conditions == filter_conditions(parsed, at)
    IN  IF Len(conditions) = 1 THEN conditions[1]
        ELSE Clause("$and", "$and", conditions)

---------------------------------------------------------------------------
(* The vector index: PineconeClient.search *)

\* the metadata filter of the index on one record; a record has a field
\* "type" only when it is an administrative one
RECURSIVE Matches(_, _)
Matches(f, md) ==
    CASE f.op = "$and" -> \A i \in 1 .. Len(f.value) : Matches(f.value[i], md)
      [] f.op = "$or" -> \E i \in 1 .. Len(f.value) : Matches(f.value[i], md)
      [] f.field = "type" -> md.type # Some(f.value)
      [] f.field = "language" /\ f.op = "$eq" -> md.language = Some(f.value)
      [] f.field = "language" /\ f.op = "$in" ->
            \E i \in 1 .. Len(f.value) : md.language = Some(f.value[i])
      [] f.field = "repo_stars" /\ f.op = "$gte" -> md.repo_stars >= f.value
      [] f.field = "repo_stars" /\ f.op = "$lte" -> md.repo_stars <= f.value
      [] f.field = "updated_at_ts" -> md.updated_at_ts >= f.value
      [] f.field = "created_at_ts" -> md.created_at_ts >= f.value
      [] f.field = "is_good_first_issue" -> md.is_good_first_issue = f.value
      [] f.field = "is_help_wanted" -> md.is_help_wanted = f.value
      [] f.field = "is_assigned" -> md.is_assigned = f.value

\* lines 73-94: the first top_k records of the index, in the order the index
\* ranks them, that satisfy the filter
pinecone_search(records, top_k, filter_dict) ==
    LET Hit(m) == Matches(filter_dict, m.metadata)
        hits == SelectSeq(records, Hit)
    IN  SubSeq(hits, 1, Min(top_k, Len(hits)))

---------------------------------------------------------------------------
(* The ranker: SearchEngine._create_result and _process_results *)

\* lines 275-300, the fields the engine and the claims read
create_result(match) ==
    [issue_id    |-> match.metadata.issue_id,
     repo_stars  |-> match.metadata.repo_stars,
     language    |-> match.metadata.language,
     labels      |-> match.metadata.labels,
     created_at  |-> match.metadata.created_at,
     updated_at  |-> match.metadata.updated_at,
     score       |-> match.score,
     is_assigned |-> match.metadata.is_assigned,
     repo_topics |-> match.metadata.repo_topics]

\* the topic test with the topics compared as they are written
topic_match_case_sensitive(topics, repo_topics) ==
    \E i \in 1 .. Len(topics) : topics[i] \in Range(repo_topics)

\* lines 315-322: a requested topic equals, lower-cased, a topic of the repo
topic_match(topics, repo_topics) ==
    \E i \in 1 .. Len(topics) :
        Lower(topics[i]) \in {Lower(t) : t \in Range(repo_topics)}

\* lines 311-333: the loop over the raw results
\* the loop, skipping a match whose updated_at does not parse
RECURSIVE scored_results_skip_unparseable(_, _, _)
scored_results_skip_unparseable(raw_results, parsed, at) ==
    IF raw_results = <<>> THEN <<>>
    ELSE LET match == Head(raw_results)
             rest == scored_results_skip_unparseable(Tail(raw_results), parsed, at)
         IN  IF \/ TruthyList(parsed.topics)
                   /\ ~topic_match(parsed.topics[1], match.metadata.repo_topics)
                \/ ~fromisoformat(match.metadata.updated_at).ok
             THEN rest
             ELSE <<[create_result(match) EXCEPT
                       !.score = calculate_combined_score(
                                     match.score, match.metadata.repo_stars,
                                     match.metadata.updated_at, at)]>>
                  \o rest

RECURSIVE scored_results(_, _, _)
scored_results(raw_results, parsed, at) ==
    IF raw_results = <<>> THEN <<>>
    ELSE LET match == Head(raw_results)
             rest == scored_results(Tail(raw_results), parsed, at)
         IN  IF TruthyList(parsed.topics)
                /\ ~topic_match(parsed.topics[1], match.metadata.repo_topics)
             THEN rest
             ELSE <<[create_result(match) EXCEPT
                       !.score = calculate_combined_score(
                                     match.score, match.metadata.repo_stars,
                                     match.metadata.updated_at, at)]>>
                  \o rest

\* lines 335-342: the key the results are sorted by
sort_key(sort_by) ==
    IF sort_by = "stars" THEN "repo_stars"
    ELSE IF sort_by = "recency" THEN "updated_at"
    ELSE "score"

\* lines 302-344
process_results(raw_results, parsed, at) ==
    SortDesc(scored_results(raw_results, parsed, at), sort_key(parsed.sort_by))

---------------------------------------------------------------------------
(* SearchEngine.search *)

EMBED_ATTEMPTS == 3
TOP_K == 100

\* the overrides with the sentinel compared as written, "all" only
apply_overrides_exact_sentinel(parsed, q) ==
    LET p1 == IF TruthyStr(q.language)
              THEN [parsed EXCEPT !.language =
                        IF q.language[1] # "all" THEN q.language ELSE None]
              ELSE parsed
        p2 == IF TruthyList(q.labels) THEN [p1 EXCEPT !.labels = q.labels] ELSE p1
        p3 == IF TruthyStr(q.sort_by) THEN [p2 EXCEPT !.sort_by = q.sort_by[1]] ELSE p2
        p4 == IF TruthyNum(q.days_ago) THEN [p3 EXCEPT !.days_ago = q.days_ago] ELSE p3
    IN  IF q.unassigned_only THEN [p4 EXCEPT !.unassigned_only = TRUE] ELSE p4

\* the overrides with the unassigned flag of the request taken as it is
apply_overrides_unassigned_replaces(parsed, q) ==
    LET p1 == IF TruthyStr(q.language)
              THEN [parsed EXCEPT !.language =
                        IF Lower(q.language[1]) # "all" THEN q.language ELSE None]
              ELSE parsed
        p2 == IF TruthyList(q.labels) THEN [p1 EXCEPT !.labels = q.labels] ELSE p1
        p3 == IF TruthyStr(q.sort_by) THEN [p2 EXCEPT !.sort_by = q.sort_by[1]] ELSE p2
        p4 == IF TruthyNum(q.days_ago) THEN [p3 EXCEPT !.days_ago = q.days_ago] ELSE p3
    IN  [p4 EXCEPT !.unassigned_only = q.unassigned_only]

\* the overrides with the label override appended to the parsed labels
apply_overrides_merge_labels(parsed, q) ==
    LET p1 == IF TruthyStr(q.language)
              THEN [parsed EXCEPT !.language =
                        IF Lower(q.language[1]) # "all" THEN q.language ELSE None]
              ELSE parsed
        p2 == IF TruthyList(q.labels)
              THEN [p1 EXCEPT !.labels =
                        IF TruthyList(p1.labels)
                        THEN Some(p1.labels[1] \o q.labels[1]) ELSE q.labels]
              ELSE p1
        p3 == IF TruthyStr(q.sort_by) THEN [p2 EXCEPT !.sort_by = q.sort_by[1]] ELSE p2
        p4 == IF TruthyNum(q.days_ago) THEN [p3 EXCEPT !.days_ago = q.days_ago] ELSE p3
    IN  IF q.unassigned_only THEN [p4 EXCEPT !.unassigned_only = TRUE] ELSE p4

\* lines 38-53: the manual filters of the request replace the parsed ones
apply_overrides(parsed, q) ==
    LET p1 == IF TruthyStr(q.language)
              THEN [parsed EXCEPT !.language =
                        IF Lower(q.language[1]) # "all" THEN q.language ELSE None]
              ELSE parsed
        p2 == IF TruthyList(q.labels) THEN [p1 EXCEPT !.labels = q.labels] ELSE p1
        p3 == IF TruthyStr(q.sort_by) THEN [p2 EXCEPT !.sort_by = q.sort_by[1]] ELSE p2
        p4 == IF TruthyNum(q.days_ago) THEN [p3 EXCEPT !.days_ago = q.days_ago] ELSE p3
    IN  IF q.unassigned_only THEN [p4 EXCEPT !.unassigned_only = TRUE] ELSE p4

\* EmbeddingService.generate_query_embedding under its retry decorator: the
\* provider is called until it answers, EMBED_ATTEMPTS times at most
embed_calls(up) == Min(up.embed_failures + 1, EMBED_ATTEMPTS)
embed_raises(up) == up.embed_failures >= EMBED_ATTEMPTS

Raised(calls) ==
    [raised |-> TRUE, results |-> <<>>, parsed |-> None, filter |-> None,
     calls |-> calls]

\* search that queries the index again when the query raised, and returns an
\* empty list when it raises again
search_retry_then_empty(q, reply, up, records, at) ==
    LET parsed == apply_overrides(parse(q.query, reply).value, q)
        calls == [parse |-> 1, embed |-> embed_calls(up),
                  index |-> IF embed_raises(up) THEN 0
                            ELSE IF up.index_raises THEN 2 ELSE 1]
    IN  IF embed_raises(up) THEN Raised(calls)
        ELSE IF up.index_raises
        THEN [raised |-> FALSE, results |-> <<>>, parsed |-> parsed, calls |-> calls,
              filter |-> build_filter(parsed, at)]
        ELSE [raised |-> FALSE, parsed |-> parsed, calls |-> calls,
              filter |-> build_filter(parsed, at),
              results |-> process_results(
                              pinecone_search(records, TOP_K, build_filter(parsed, at)),
                              parsed, at)]

\* lines 26-76: parse, override, embed, build the filter, query once, rank
search(q, reply, up, records, at) ==
    LET parsed_first == parse(q.query, reply)
        parsed == apply_overrides(parsed_first.value, q)
        calls == [parse |-> 1,
                  embed |-> IF parsed_first.raised THEN 0 ELSE embed_calls(up),
                  index |-> IF parsed_first.raised \/ embed_raises(up) THEN 0 ELSE 1]
    IN  IF parsed_first.raised \/ embed_raises(up) \/ up.index_raises
        THEN Raised(calls)
        ELSE [raised |-> FALSE, parsed |-> parsed, calls |-> calls,
              filter |-> build_filter(parsed, at),
              results |-> process_results(
                              pinecone_search(records, TOP_K, build_filter(parsed, at)),
                              parsed, at)]

---------------------------------------------------------------------------
(* The route POST /api/search *)

ServerError == [status |-> 500]

\* the slice with a 0-indexed page: start_idx = page * limit
page_slice_zero_indexed(all_results, page, limit) ==
    PySlice(all_results, page * limit, page * limit + limit)

\* lines 36-38
page_slice(all_results, page, limit) ==
    PySlice(all_results, (page - 1) * limit, (page - 1) * limit + limit)

\* line 32 without the special case of an empty result list
total_pages_no_empty_case(total, limit) ==
    IF limit = 0 THEN 0 ELSE (total + limit - 1) \div limit

\* line 32
total_pages_of(total, limit) ==
    IF total > 0 THEN (total + limit - 1) \div limit ELSE 1

\* the requested page, only kept from falling below 1
clamp_page_below_only(page, total_pages) == Max(1, page)

\* line 33
clamp_page(page, total_pages) == Max(1, Min(page, total_pages))

\* lines 27-53: what the handler answers for the engine's outcome
respond(q, out) ==
    IF out.raised THEN ServerError
    ELSE LET total == Len(out.results)
         IN  IF total > 0 /\ q.limit = 0 THEN ServerError   \* ZeroDivisionError
             ELSE LET total_pages == total_pages_of(total, q.limit)
                      page == clamp_page(q.page, total_pages)
                  IN  [status       |-> 200,
                       results      |-> page_slice(out.results, page, q.limit),
                       parsed_query |-> out.parsed,
                       total        |-> total,
                       page         |-> page,
                       limit        |-> q.limit,
                       total_pages  |-> total_pages,
                       has_next     |-> page < total_pages,
                       has_prev     |-> page > 1]

SearchRoute ==
    /\ pc = "search"
    /\ engine_out' = search(query, llm, upstream, index, now)
    /\ response' = respond(query, engine_out')
    /\ pc' = "responded"
    /\ UNCHANGED <<backgroundVars, now, scoreVars, query, llm, parse_out, upstream, index>>

---------------------------------------------------------------------------
(* The records of the index *)

\* int(dt.timestamp()) of IssueMetadata.created_at_ts / updated_at_ts, 0 when
\* the string does not parse
iso_ts(str) == IF fromisoformat(str).ok THEN fromisoformat(str).t ELSE 0

\* an index match for an issue as ingestion writes it (_node_to_metadata):
\* the flags are derived from the labels, the integers from the strings
IssueMatch(id, sim, stars, created_at, updated_at, labels, topics, language, assigned) ==
    [id |-> id,
     score |-> sim,
     metadata |->
        [issue_id |-> id,
         repo_stars |-> stars,
         created_at |-> created_at,
         updated_at |-> updated_at,
         created_at_ts |-> iso_ts(created_at),
         updated_at_ts |-> iso_ts(updated_at),
         labels |-> labels,
         repo_topics |-> topics,
         language |-> language,
         is_assigned |-> assigned,
         is_good_first_issue |->
             "good first issue" \in {Lower(l) : l \in Range(labels)},
         is_help_wanted |-> "help wanted" \in {Lower(l) : l \in Range(labels)},
         type |-> None]]

\* every sequence of at most n elements of set
SeqsUpTo(set, n) == UNION {[1 .. k -> set] : k \in 0 .. n}

\* the records take their ids from their places in the index
WithIds(shapes) ==
    [i \in 1 .. Len(shapes) |->
        IssueMatch(i, shapes[i].sim, shapes[i].stars, shapes[i].created_at,
                   shapes[i].updated_at, <<>>, <<>>, Some("Python"), FALSE)]

Healthy == [embed_failures |-> 0, index_raises |-> FALSE]

LlmDown ==
    [call |-> "raises", text |-> [fence |-> "", body |-> "prose", obj |-> NoObject]]

---------------------------------------------------------------------------
(* Pagination: the route over result lists of every length *)

MaxTotal == 5
MaxLimit == 3

\* the similarity falls and rises along the index, so ranking reorders it
PageShape(i, at) ==
    [sim |-> (2 * i) % (SimSteps + 1), stars |-> 0,
     created_at |-> [t |-> at - i, suffix |-> "Z"],
     updated_at |-> [t |-> at, suffix |-> "Z"]]

InitPage ==
    /\ pc = "search"
    /\ now \in {3 * MAX_AGE_DAYS * TicksPerDay}
    /\ score_in = None
    /\ score_out = None
    /\ parse_out = None
    /\ query \in {[SearchQueryDefaults("cli tools") EXCEPT !.limit = l, !.page = p] :
                    l \in -1 .. MaxLimit, p \in -1 .. MaxTotal + 2}
    /\ llm = LlmDown
    /\ upstream = Healthy
    /\ index \in {WithIds([i \in 1 .. n |-> PageShape(i, now)]) : n \in 0 .. MaxTotal}
    /\ engine_out = None
    /\ response = None
    /\ BackgroundInit

NextPage == SearchRoute

SpecPage == InitPage /\ [][NextPage]_vars

---------------------------------------------------------------------------
(* Ranked search: the route over candidates that differ in every sort key *)

MaxMatches == 2

\* an issue is never updated before it is created
MatchShapes(at) ==
    {shape \in
        [sim : {1, SimSteps - 1},
         stars : {40, 9000},
         created_at : {[t |-> at - 2 * TicksPerDay, suffix |-> "Z"],
                       [t |-> at - 500 * TicksPerDay, suffix |-> "Z"]},
         updated_at : {[t |-> at - TicksPerDay, suffix |-> "Z"],
                       [t |-> at - 400 * TicksPerDay, suffix |-> "Z"],
                       [t |-> 0, suffix |-> "?"]}] :
        shape.updated_at.suffix = "?" \/ shape.created_at.t <= shape.updated_at.t}

SortOverrides == {None} \cup {Some(x) : x \in SortByLiteral}

LlmSortsByStars ==
    [call |-> "ok",
     text |-> [fence |-> "fence json", body |-> "object",
               obj |-> [NoObject EXCEPT
                           !.semantic_query = Present(Some("contributions")),
                           !.sort_by = Present(Some("stars"))]]]

Upstreams ==
    [embed_failures : {0, 1, EMBED_ATTEMPTS}, index_raises : BOOLEAN]

\* when a collaborator raises no record is read, and one record stands for all
InitSearch ==
    /\ pc = "search"
    /\ now \in {3 * MAX_AGE_DAYS * TicksPerDay}
    /\ score_in = None
    /\ score_out = None
    /\ parse_out = None
    /\ query \in {[SearchQueryDefaults("cli tools") EXCEPT !.sort_by = x] :
                    x \in SortOverrides}
    /\ llm \in {LlmDown, LlmSortsByStars}
    /\ upstream \in Upstreams
    /\ index \in {WithIds(shapes) :
                    shapes \in SeqsUpTo(MatchShapes(now),
                                        IF upstream = Healthy THEN MaxMatches ELSE 1)}
    /\ engine_out = None
    /\ response = None
    /\ BackgroundInit

NextSearch == SearchRoute

SpecSearch == InitSearch /\ [][NextSearch]_vars

---------------------------------------------------------------------------
(* Properties of the paginator, checked under SpecPage *)

Responded == pc = "responded"
Answered == Responded /\ ~engine_out.raised

Ceil(a, b) == (a + b - 1) \div b

\* the slices of pages p .. last, one after the other
RECURSIVE PagesFrom(_, _, _, _)
PagesFrom(ordered, limit, p, last) ==
    IF p > last THEN <<>>
    ELSE page_slice(ordered, p, limit) \o PagesFrom(ordered, limit, p + 1, last)

\* C1: for limit >= 1 the page p of 1..total_pages is
\* ordered[(p-1)*limit : p*limit], of length <= limit, and the pages in order
\* make up the whole ordered list: nothing missing, nothing twice.
C1_PagesPartition ==
    (Answered /\ query.limit >= 1) =>
        LET ordered == engine_out.results
            total == Len(ordered)
            limit == query.limit
            last == IF total > 0 THEN Ceil(total, limit) ELSE 1
        IN  /\ response.status = 200
            /\ response.total_pages = last
            /\ query.page \in 1 .. last => response.page = query.page
            /\ response.results = page_slice(ordered, response.page, limit)
            /\ \A p \in 1 .. last :
                  /\ page_slice(ordered, p, limit)
                       = SubSeq(ordered, (p - 1) * limit + 1, Min(p * limit, total))
                  /\ Len(page_slice(ordered, p, limit)) <= limit
            /\ PagesFrom(ordered, limit, 1, last) = ordered
            /\ \A i, j \in 1 .. total :
                  i # j => ordered[i].issue_id # ordered[j].issue_id

C1_Witness ==
    /\ Answered
    /\ query.limit = 2
    /\ query.page = 3
    /\ Len(engine_out.results) = 5
    /\ Len(response.results) = 1
    /\ response.has_prev

\* C2: a page that is zero, negative or beyond the last is no error: the
\* response carries the page clamped into [1, total_pages], the slice is the
\* clamped page's, and has_next and has_prev are computed from it.  (limit >= 1,
\* the request the interface admits.)
C2_PageClamped ==
    (Answered /\ query.limit >= 1) =>
        LET total == Len(engine_out.results)
            last == response.total_pages
            clamped == IF query.page < 1 THEN 1
                       ELSE IF query.page > last THEN last
                       ELSE query.page
        IN  /\ response.status = 200
            /\ last >= 1
            /\ response.page = clamped
            /\ response.page \in 1 .. last
            /\ response.results =
                  SubSeq(engine_out.results, (clamped - 1) * query.limit + 1,
                         Min(clamped * query.limit, total))
            /\ response.has_next = (clamped < last)
            /\ response.has_prev = (clamped > 1)

C2_Witness ==
    /\ Answered
    /\ query.limit = 2
    /\ Len(engine_out.results) = 5
    /\ query.page = 7
    /\ response.page = 3
    /\ ~response.has_next

\* C3: with zero results, for every requested page and limit (zero and
\* negative ones too) the response is a success with total_pages 1, page 1,
\* no next, no previous and an empty list.
C3_EmptyResultPage ==
    (Answered /\ Len(engine_out.results) = 0) =>
        /\ response.status = 200
        /\ response.total = 0
        /\ response.total_pages = 1
        /\ response.page = 1
        /\ response.has_next = FALSE
        /\ response.has_prev = FALSE
        /\ response.results = <<>>

C3_Witness ==
    /\ Answered
    /\ Len(index) = 0
    /\ query.limit = 0
    /\ query.page = 3
    /\ response.status = 200
    /\ response.results = <<>>

---------------------------------------------------------------------------
(* Properties of ranked search, checked under SpecSearch *)

\* what the index returned to the engine for the request
Retrieved == pinecone_search(index, TOP_K, build_filter(engine_out.parsed, now))

\* C7: a retrieved candidate whose updated_at does not parse fails nothing and
\* is in the result list, with the score round(0.70*similarity + 0.15, 4).
C7_UnparseableKept ==
    Answered =>
        /\ response.status = 200
        /\ \A i \in 1 .. Len(Retrieved) :
              ~fromisoformat(Retrieved[i].metadata.updated_at).ok =>
                 \E k \in 1 .. Len(engine_out.results) :
                    /\ engine_out.results[k].issue_id = Retrieved[i].id
                    /\ engine_out.results[k].score =
                          RoundHalfEven(
                              7000 * Retrieved[i].score + 1500 * SimSteps, SimSteps)

C7_Witness ==
    /\ Answered
    /\ Len(index) = 2
    /\ index[1].metadata.updated_at.suffix = "?"
    /\ index[2].metadata.updated_at.suffix = "Z"
    /\ Len(response.results) = 2
    /\ \E k \in 1 .. 2 :
          /\ engine_out.results[k].issue_id = 1
          /\ engine_out.results[k].score > 1500

\* the key each sort_by value of a request stands for
ModeKey(sort_by) ==
    CASE sort_by = "relevance" -> "score"
      [] sort_by = "newest" -> "created_at"
      [] sort_by = "recently_discussed" -> "updated_at"
      [] sort_by = "stars" -> "repo_stars"

\* C8: for each of the four sort_by values the result list of search is in
\* descending order of the mode's key: score, created_at, updated_at,
\* repo_stars.
C8_SortedByModeKey ==
    Answered =>
        \A i, j \in 1 .. Len(engine_out.results) :
            i < j => ~KeyLess(engine_out.results[i], engine_out.results[j],
                              ModeKey(engine_out.parsed.sort_by))

\* C10: when the embedding call or the index query raises, the request ends in
\* the one HTTP 500 and carries no result list, and the engine has queried
\* the index at most once.
C10_UpstreamFailureIsOneError ==
    Responded =>
        /\ engine_out.calls.index <= 1
        /\ (embed_raises(upstream) \/ upstream.index_raises) =>
              /\ response = [status |-> 500]
              /\ engine_out.raised
              /\ engine_out.results = <<>>
        /\ (embed_raises(upstream) /\ upstream.index_raises) =>
              engine_out.calls.index = 0

C10_Witness ==
    /\ Responded
    /\ upstream.index_raises
    /\ upstream.embed_failures = 1
    /\ Len(index) = 1
    /\ engine_out.calls.index = 1
    /\ response.status = 500

---------------------------------------------------------------------------
(* The homepage feed: SearchEngine.get_recent_issues and GET /api/search/recent *)

RECENT_TOP_K == 200
RECENT_DAYS == 30

\* the filter of the feed is one dict: a function from field names to
\* conditions, a record passing when it passes the condition of every key
Cond(op, value) == [op |-> op, value |-> value]

MatchesDict(filter_dict, md) ==
    \A k \in DOMAIN filter_dict :
        Matches(Clause(k, filter_dict[k].op, filter_dict[k].value), md)

\* the filter that looks at the sort mode before it looks at days_ago
recent_filter_sort_first(sort_by, languages, days_ago, at) ==
    ("type" :> Cond("$ne", "stats"))
    @@ (IF sort_by = "newest"
        THEN "created_at_ts" :> Cond("$gte", at - TicksPerDay)
        ELSE IF TruthyNum(days_ago)
        THEN "updated_at_ts" :> Cond("$gte", at - days_ago[1] * TicksPerDay)
        ELSE "updated_at_ts" :> Cond("$gte", at - RECENT_DAYS * TicksPerDay))
    @@ (IF ~TruthyList(languages) THEN <<>>
        ELSE IF Len(languages[1]) = 1
        THEN "language" :> Cond("$eq", languages[1][1])
        ELSE "language" :> Cond("$in", languages[1]))

\* lines 104-127
recent_filter(sort_by, languages, days_ago, at) ==
    ("type" :> Cond("$ne", "stats"))
    @@ (IF TruthyNum(days_ago)
        THEN "updated_at_ts" :> Cond("$gte", at - days_ago[1] * TicksPerDay)
        ELSE IF sort_by = "newest"
        THEN "created_at_ts" :> Cond("$gte", at - TicksPerDay)
        ELSE "updated_at_ts" :> Cond("$gte", at - RECENT_DAYS * TicksPerDay))
    @@ (IF ~TruthyList(languages) THEN <<>>
        ELSE IF Len(languages[1]) = 1
        THEN "language" :> Cond("$eq", languages[1][1])
        ELSE "language" :> Cond("$in", languages[1]))

\* lines 129-133 with the dict filter
recent_search(records, top_k, filter_dict) ==
    LET Hit(m) == MatchesDict(filter_dict, m.metadata)
        hits == SelectSeq(records, Hit)
    IN  SubSeq(hits, 1, Min(top_k, Len(hits)))

\* lines 143-146: a requested label equals, lower-cased, a label of the issue
label_match(labels, issue_labels) ==
    \E i \in 1 .. Len(labels) :
        Lower(labels[i]) \in {Lower(l) : l \in Range(issue_labels)}

\* lines 139-157: the loop over the raw results
RECURSIVE recent_results(_, _, _)
recent_results(raw_results, labels, at) ==
    IF raw_results = <<>> THEN <<>>
    ELSE LET match == Head(raw_results)
             rest == recent_results(Tail(raw_results), labels, at)
         IN  IF TruthyList(labels)
                /\ ~label_match(labels[1], match.metadata.labels)
             THEN rest
             ELSE <<[create_result(match) EXCEPT
                       !.score = calculate_combined_score(
                                     match.score, match.metadata.repo_stars,
                                     match.metadata.updated_at, at)]>>
                  \o rest

\* the key choice of ranked search applied to the feed
recent_sort_key_as_search(sort_by) ==
    IF sort_by = "stars" THEN "repo_stars"
    ELSE IF sort_by = "recency" THEN "updated_at"
    ELSE "score"

\* lines 159-171
recent_sort_key(sort_by) ==
    IF sort_by = "newest" THEN "created_at"
    ELSE IF sort_by = "recently_discussed" THEN "updated_at"
    ELSE IF sort_by = "stars" THEN "repo_stars"
    ELSE "score"

RecentRaised(exc) ==
    [raised |-> TRUE, exc |-> exc, results |-> <<>>, ordered |-> <<>>,
     filter |-> <<>>]

\* lines 78-173, for the arguments bound to the parameters
get_recent_issues(args, up, records, at) ==
    IF embed_raises(up) \/ up.index_raises THEN RecentRaised("Exception")
    ELSE LET filter_dict == recent_filter(args.sort_by, args.languages,
                                          args.days_ago, at)
             raw_results == recent_search(records, RECENT_TOP_K, filter_dict)
             results == SortDesc(recent_results(raw_results, args.labels, at),
                                 recent_sort_key(args.sort_by))
         IN  [raised |-> FALSE, exc |-> "", filter |-> filter_dict,
              ordered |-> results,
              results |-> PySlice(results, 0, args.limit)]

\* the parameters of SearchEngine.get_recent_issues and their defaults
RecentParams == {"limit", "sort_by", "languages", "labels", "days_ago"}

RecentDefaults ==
    [limit |-> 20, sort_by |-> "newest", languages |-> None, labels |-> None,
     days_ago |-> None]

\* a call with keyword arguments: TypeError for a keyword that is no
\* parameter, the default for a parameter that is not passed
call_get_recent_issues(kwargs, up, records, at) ==
    IF ~(DOMAIN kwargs \subseteq RecentParams) THEN RecentRaised("TypeError")
    ELSE get_recent_issues(
             [k \in RecentParams |->
                 IF k \in DOMAIN kwargs THEN kwargs[k] ELSE RecentDefaults[k]],
             up, records, at)

\* routes/search.py lines 80-88: the keyword arguments the route passes
recent_kwargs(req) ==
    [limit    |-> req.limit,
     sort_by  |-> req.sort_by,
     language |-> req.language,
     labels   |-> IF TruthyStr(req.label) THEN Some(<<req.label[1]>>) ELSE None,
     days_ago |-> req.days_ago]

\* routes/search.py lines 90-97
recent_respond(out) ==
    IF out.raised THEN ServerError
    ELSE [status |-> 200, results |-> out.results, total |-> Len(out.results)]

\* GET /api/search/recent
RecentRoute ==
    /\ pc = "recent"
    /\ engine_out' = call_get_recent_issues(recent_kwargs(query), upstream, index, now)
    /\ response' = recent_respond(engine_out')
    /\ pc' = "responded"
    /\ UNCHANGED <<backgroundVars, now, scoreVars, query, llm, parse_out, upstream, index>>

\* SearchEngine.get_recent_issues called with its own parameter names
RecentEngine ==
    /\ pc = "engine"
    /\ engine_out' = call_get_recent_issues(query, upstream, index, now)
    /\ pc' = "returned"
    /\ UNCHANGED <<backgroundVars, now, scoreVars, query, llm, parse_out, upstream, index, response>>

---------------------------------------------------------------------------
(* The feed over issues inside and outside each time window *)

MaxFeed == 2

FeedSorts == SortByLiteral

FeedDays == {None, Some(0), Some(7)}

\* the query parameters of a request to the route
FeedRequests ==
    [limit : {0, 1, 20}, sort_by : FeedSorts,
     language : {None, Some("Python")},
     label : {None, Some("good first issue")},
     days_ago : FeedDays]

\* the keyword arguments of a call of the engine method
FeedCalls ==
    {[limit |-> l, sort_by |-> s, languages |-> ls, days_ago |-> d] :
        l \in {1, 20}, s \in FeedSorts \cup {"trending"},
        ls \in {None, Some(<<"Python">>), Some(<<"Python", "Go">>)},
        d \in FeedDays}
    \cup {[limit |-> 20, labels |-> Some(<<"good first issue">>), days_ago |-> d] :
            d \in FeedDays}

\* issues created today, a day ago, last week and long ago
FeedShapes(at) ==
    {[sim |-> 1, stars |-> 9000, language |-> "Python", labels |-> <<>>,
      created_at |-> [t |-> at - 1, suffix |-> "Z"],
      updated_at |-> [t |-> at - 1, suffix |-> "Z"]],
     [sim |-> SimSteps - 1, stars |-> 40, language |-> "Python",
      labels |-> <<"Good First Issue">>,
      created_at |-> [t |-> at - 10 * TicksPerDay, suffix |-> "Z"],
      updated_at |-> [t |-> at - 5 * TicksPerDay, suffix |-> "Z"]],
     [sim |-> SimSteps, stars |-> 700, language |-> "Go", labels |-> <<"bug">>,
      created_at |-> [t |-> at - 20 * TicksPerDay, suffix |-> "Z"],
      updated_at |-> [t |-> at - 10 * TicksPerDay, suffix |-> "Z"]],
     [sim |-> SimSteps, stars |-> 40, language |-> "Python", labels |-> <<>>,
      created_at |-> [t |-> at - 500 * TicksPerDay, suffix |-> "Z"],
      updated_at |-> [t |-> at - 40 * TicksPerDay, suffix |-> "Z"]],
     [sim |-> 1, stars |-> 9000, language |-> "Python", labels |-> <<>>,
      created_at |-> [t |-> at - TicksPerDay, suffix |-> "Z"],
      updated_at |-> [t |-> at - TicksPerDay, suffix |-> "Z"]]}

FeedIndex(shapes) ==
    [i \in 1 .. Len(shapes) |->
        IssueMatch(i, shapes[i].sim, shapes[i].stars, shapes[i].created_at,
                   shapes[i].updated_at, shapes[i].labels, <<>>,
                   Some(shapes[i].language), FALSE)]

FeedUpstreams ==
    {Healthy, [embed_failures |-> EMBED_ATTEMPTS, index_raises |-> FALSE],
     [embed_failures |-> 1, index_raises |-> TRUE]}

InitFeed ==
    /\ pc \in {"recent", "engine"}
    /\ now \in {3 * MAX_AGE_DAYS * TicksPerDay}
    /\ score_in = None
    /\ score_out = None
    /\ parse_out = None
    /\ query \in IF pc = "recent" THEN FeedRequests ELSE FeedCalls
    /\ llm = None
    /\ upstream \in FeedUpstreams
    /\ index \in {FeedIndex(shapes) :
                    shapes \in SeqsUpTo(FeedShapes(now),
                                        IF upstream = Healthy THEN MaxFeed ELSE 1)}
    /\ engine_out = None
    /\ response = None
    /\ BackgroundInit

NextFeed == RecentRoute \/ RecentEngine

SpecFeed == InitFeed /\ [][NextFeed]_vars

---------------------------------------------------------------------------
(* Properties of the homepage feed, checked under SpecFeed *)

FeedAnswered == pc = "responded" /\ upstream = Healthy
FeedReturned == pc = "returned" /\ upstream = Healthy

\* C11: a feed request with healthy collaborators succeeds with the first
\* limit items of the ordered list, total the number of items returned, and
\* nothing but results and total in the response.
C11_FeedSucceeds ==
    (FeedAnswered /\ query.limit >= 0) =>
        /\ response.status = 200
        /\ DOMAIN response = {"status", "results", "total"}
        /\ Len(response.results) <= query.limit
        /\ response.total = Len(response.results)

\* the engine method itself, called with its own parameter names, returns the
\* ordered list cut to at most limit items
FeedEngineTruncates ==
    FeedReturned =>
        /\ ~engine_out.raised
        /\ engine_out.results =
              SubSeq(engine_out.ordered, 1, Min(query.limit, Len(engine_out.ordered)))

TimeKeys == {"updated_at_ts", "created_at_ts"}

\* C12 as stated: exactly one time-window clause; with days_ago supplied it is
\* updated_at_ts >= now - days_ago days whatever the sort mode, else
\* created_at_ts >= now - 24h for "newest" and updated_at_ts >= now - 30d for
\* every other mode.
C12_TimeWindowAsStated ==
    (FeedReturned /\ "days_ago" \in DOMAIN query /\ "sort_by" \in DOMAIN query) =>
        LET f == engine_out.filter
            key == CHOOSE k \in TimeKeys : k \in DOMAIN f
        IN  /\ Cardinality(TimeKeys \cap DOMAIN f) = 1
            /\ f[key].op = "$gte"
            /\ IF query.days_ago # None
               THEN /\ key = "updated_at_ts"
                    /\ f[key].value = now - query.days_ago[1] * TicksPerDay
               ELSE IF query.sort_by = "newest"
               THEN /\ key = "created_at_ts"
                    /\ f[key].value = now - TicksPerDay
               ELSE /\ key = "updated_at_ts"
                    /\ f[key].value = now - 30 * TicksPerDay

\* C12, amended: the same with "supplies a non-zero days_ago"; days_ago = 0
\* counts as not supplied and the window follows the sort mode.
C12_TimeWindow ==
    FeedReturned =>
        LET f == engine_out.filter
            sort_by == IF "sort_by" \in DOMAIN query THEN query.sort_by ELSE "newest"
            key == CHOOSE k \in TimeKeys : k \in DOMAIN f
        IN  /\ Cardinality(TimeKeys \cap DOMAIN f) = 1
            /\ f[key].op = "$gte"
            /\ IF query.days_ago # None /\ query.days_ago[1] # 0
               THEN /\ key = "updated_at_ts"
                    /\ f[key].value = now - query.days_ago[1] * TicksPerDay
               ELSE IF sort_by = "newest"
               THEN /\ key = "created_at_ts"
                    /\ f[key].value = now - TicksPerDay
               ELSE /\ key = "updated_at_ts"
                    /\ f[key].value = now - 30 * TicksPerDay
            /\ \A i \in 1 .. Len(engine_out.ordered) :
                  LET ts == IF key = "created_at_ts"
                            THEN engine_out.ordered[i].created_at.t
                            ELSE engine_out.ordered[i].updated_at.t
                  IN  ts >= f[key].value

C12_Witness ==
    /\ FeedReturned
    /\ "sort_by" \in DOMAIN query
    /\ query.sort_by = "newest"
    /\ query.days_ago = Some(7)
    /\ DOMAIN engine_out.filter = {"type", "updated_at_ts"}
    /\ Len(index) = 2
    /\ Len(engine_out.ordered) = 1
    /\ engine_out.ordered[1].created_at.t < now - TicksPerDay

---------------------------------------------------------------------------
(* Ranked search over filters: parsed queries and overrides of every kind *)

\* what the query-understanding call infers from the text
FilterObjects ==
    [semantic_query  : {Present(Some("contributions"))},
     language        : {Present(None), Present(Some("Python"))},
     min_stars       : {Present(None), Present(Some(0)), Present(Some(100))},
     max_stars       : {Absent, Present(Some(0)), Present(Some(5000))},
     labels          : {Present(None), Present(Some(<<>>)),
                        Present(Some(<<"good first issue">>)),
                        Present(Some(<<"Help Wanted", "triage">>)),
                        Present(Some(<<"Triage">>)),
                        Present(Some(<<"Good First Issue", "help wanted">>))},
     difficulty      : {Present(None), Present(Some("beginner"))},
     sort_by         : {Present(Some("relevance"))},
     days_ago        : {Present(None), Present(Some(7))},
     unassigned_only : {Present(Some(FALSE)), Present(Some(TRUE))},
     topics          : {Present(None), Present(Some(<<>>)), Present(Some(<<"CLI">>)),
                        Present(Some(<<"web", "cli">>))}]

LlmInfers(obj) ==
    [call |-> "ok", text |-> [fence |-> "fence json", body |-> "object", obj |-> obj]]

\* a reply that sets every field an override can replace
LlmRich ==
    LlmInfers([semantic_query  |-> Present(Some("contributions")),
               language        |-> Present(Some("Python")),
               min_stars       |-> Present(Some(100)),
               max_stars       |-> Present(Some(5000)),
               labels          |-> Present(Some(<<"good first issue">>)),
               difficulty      |-> Present(Some("advanced")),
               sort_by         |-> Present(Some("stars")),
               days_ago        |-> Present(Some(7)),
               unassigned_only |-> Present(Some(TRUE)),
               topics          |-> Present(Some(<<"CLI">>))])

\* the manual filters of a request
FilterOverrides ==
    {[SearchQueryDefaults("cli tools") EXCEPT
         !.language = lang, !.labels = labels, !.sort_by = sort_by,
         !.days_ago = days, !.unassigned_only = u] :
        lang \in {None, Some(""), Some("Go"), Some("all"), Some("All")},
        labels \in {None, Some(<<>>), Some(<<"help wanted">>), Some(<<"Triage">>)},
        sort_by \in {None, Some("relevance")},
        days \in {None, Some(0), Some(30)},
        u \in BOOLEAN}

\* issues that differ in every field a filter reads
FilterRecords(at) ==
    <<IssueMatch(1, SimSteps - 1, 700,
                 [t |-> at - 2 * TicksPerDay, suffix |-> "Z"],
                 [t |-> at - TicksPerDay, suffix |-> "Z"],
                 <<"Good First Issue">>, <<"CLI", "tools">>, Some("Python"), FALSE),
      IssueMatch(2, SimSteps, 9000,
                 [t |-> at - 50 * TicksPerDay, suffix |-> "Z"],
                 [t |-> at - TicksPerDay, suffix |-> "Z"],
                 <<"triage", "bug">>, <<>>, Some("Python"), TRUE),
      IssueMatch(3, 1, 400,
                 [t |-> at - 90 * TicksPerDay, suffix |-> "Z"],
                 [t |-> at - 20 * TicksPerDay, suffix |-> "Z"],
                 <<"help wanted">>, <<"cli">>, Some("Go"), FALSE),
      IssueMatch(4, 1, 700,
                 [t |-> at - 3 * TicksPerDay, suffix |-> "Z"],
                 [t |-> at - 3 * TicksPerDay, suffix |-> "Z"],
                 <<"bug">>, <<"web">>, Some("Python"), FALSE)>>

InitFilter ==
    /\ pc = "search"
    /\ now \in {3 * MAX_AGE_DAYS * TicksPerDay}
    /\ score_in = None
    /\ score_out = None
    /\ parse_out = None
    /\ \/ /\ query = SearchQueryDefaults("cli tools")
          /\ llm \in {LlmInfers(obj) : obj \in FilterObjects}
       \/ /\ query \in FilterOverrides
          /\ llm \in {LlmDown, LlmRich}
    /\ upstream = Healthy
    /\ index = FilterRecords(now)
    /\ engine_out = None
    /\ response = None
    /\ BackgroundInit

NextFilter == SearchRoute

SpecFilter == InitFilter /\ [][NextFilter]_vars

---------------------------------------------------------------------------
(* Properties of the normalizer, the filter compiler and the post-filter,
   checked under SpecFilter *)

\* what the text alone gave, before the overrides
Inferred == parse(query.query, llm).value

\* the conjuncts of a compiled predicate
Conjuncts(f) == IF f.op = "$and" THEN f.value ELSE <<f>>

EqualsIgnoreCase(a, b) == Lower(a) = Lower(b)

\* how many entries of a label list equal the name, case-insensitively
RECURSIVE CountLabel(_, _)
CountLabel(labels, name) ==
    IF labels = <<>> THEN 0
    ELSE (IF EqualsIgnoreCase(Head(labels), name) THEN 1 ELSE 0)
         + CountLabel(Tail(labels), name)

RequestedLabels == IF TruthyList(engine_out.parsed.labels)
                   THEN engine_out.parsed.labels[1] ELSE <<>>

\* the top-level clauses of the predicate on one field
ClausesOn(f, field) ==
    LET On(c) == c.field = field
    IN  SelectSeq(Conjuncts(f), On)

FilterFields == {"type", "language", "repo_stars", "is_good_first_issue",
                 "is_help_wanted", "is_assigned", "updated_at_ts", "$or"}

\* C13: each requested label equal, case-insensitively, to "good first issue"
\* adds is_good_first_issue == true, each equal to "help wanted" adds
\* is_help_wanted == true, and no other label adds any clause.
C13_LabelCompilation ==
    Answered =>
        LET f == engine_out.filter
            gfi == ClausesOn(f, "is_good_first_issue")
            hw == ClausesOn(f, "is_help_wanted")
        IN  /\ Len(gfi) = CountLabel(RequestedLabels, "good first issue")
            /\ Len(hw) = CountLabel(RequestedLabels, "help wanted")
            /\ \A i \in 1 .. Len(gfi) : gfi[i].op = "$eq" /\ gfi[i].value = TRUE
            /\ \A i \in 1 .. Len(hw) : hw[i].op = "$eq" /\ hw[i].value = TRUE
            /\ \A i \in 1 .. Len(Conjuncts(f)) : Conjuncts(f)[i].field \in FilterFields
            /\ Len(Conjuncts(f)) =
                  Len(Conjuncts(build_filter([engine_out.parsed EXCEPT !.labels = None],
                                             now)))
                  + Len(gfi) + Len(hw)

C13_Witness ==
    /\ Answered
    /\ engine_out.parsed.labels = Some(<<"Help Wanted", "triage">>)
    /\ engine_out.parsed.difficulty = None
    /\ Len(ClausesOn(engine_out.filter, "is_help_wanted")) = 1
    /\ Len(ClausesOn(engine_out.filter, "is_good_first_issue")) = 0
    /\ Len(Conjuncts(engine_out.filter)) = 2

LanguageClauses == ClausesOn(engine_out.filter, "language")

\* C14 as stated: a language override becomes the language of the normalized
\* filter, an override equal to "all" in any case unsets it, and without an
\* override the inferred language stays.
C14_LanguageOverrideAsStated ==
    Answered =>
        IF query.language = None
        THEN engine_out.parsed.language = Inferred.language
        ELSE IF EqualsIgnoreCase(query.language[1], "all")
        THEN engine_out.parsed.language = None /\ LanguageClauses = <<>>
        ELSE engine_out.parsed.language = query.language

\* C14, amended: the same for a non-empty override; an override that is the
\* empty string counts as none and the inferred language stays.
C14_LanguageOverride ==
    Answered =>
        IF query.language = None \/ query.language = Some("")
        THEN engine_out.parsed.language = Inferred.language
        ELSE IF EqualsIgnoreCase(query.language[1], "all")
        THEN engine_out.parsed.language = None /\ LanguageClauses = <<>>
        ELSE /\ engine_out.parsed.language = query.language
             /\ LanguageClauses = <<Clause("language", "$eq", query.language[1])>>

C14_Witness ==
    /\ Answered
    /\ Inferred.language = Some("Python")
    /\ query.language = Some("All")
    /\ engine_out.parsed.language = None
    /\ LanguageClauses = <<>>
    /\ \E k \in 1 .. Len(engine_out.results) :
          engine_out.results[k].language = Some("Go")

\* C15: a non-empty labels override replaces the inferred labels, a present
\* sort_by override replaces sort_by, a present non-zero days_ago override
\* replaces days_ago; a field with no override present keeps the inferred
\* value, and semantic_query, min_stars, max_stars, difficulty and topics
\* keep it always.
C15_OverrideFrame ==
    Answered =>
        LET parsed == engine_out.parsed
        IN  /\ parsed.labels = IF TruthyList(query.labels) THEN query.labels
                               ELSE Inferred.labels
            /\ parsed.sort_by = IF query.sort_by # None THEN query.sort_by[1]
                                ELSE Inferred.sort_by
            /\ parsed.days_ago = IF query.days_ago # None /\ query.days_ago[1] # 0
                                 THEN query.days_ago ELSE Inferred.days_ago
            /\ query.language = None => parsed.language = Inferred.language
            /\ parsed.unassigned_only = (query.unassigned_only \/ Inferred.unassigned_only)
            /\ parsed.semantic_query = Inferred.semantic_query
            /\ parsed.min_stars = Inferred.min_stars
            /\ parsed.max_stars = Inferred.max_stars
            /\ parsed.difficulty = Inferred.difficulty
            /\ parsed.topics = Inferred.topics

C15_Witness ==
    /\ Answered
    /\ Inferred.labels = Some(<<"good first issue">>)
    /\ Inferred.sort_by = "stars"
    /\ Inferred.days_ago = Some(7)
    /\ query.labels = Some(<<"help wanted">>)
    /\ query.sort_by = Some("relevance")
    /\ query.days_ago = Some(30)
    /\ query.language = None
    /\ engine_out.parsed.labels = Some(<<"help wanted">>)
    /\ engine_out.parsed.sort_by = "relevance"
    /\ engine_out.parsed.days_ago = Some(30)
    /\ engine_out.parsed.topics = Some(<<"CLI">>)

LabelVocabulary == {"good first issue", "help wanted"}

\* C18: every result of a query that asks for a label outside the vocabulary
\* has that label, compared case-insensitively, among its raw labels.
C18_UnknownLabelPostFiltered ==
    Answered =>
        \A i \in 1 .. Len(RequestedLabels) :
            Lower(RequestedLabels[i]) \notin LabelVocabulary =>
                \A k \in 1 .. Len(engine_out.results) :
                    \E l \in Range(engine_out.results[k].labels) :
                        EqualsIgnoreCase(l, RequestedLabels[i])

RetrievedBy == pinecone_search(index, TOP_K, engine_out.filter)

IdsOf(seq) == {seq[i].issue_id : i \in 1 .. Len(seq)}

\* C19: with a non-empty topics list a retrieved candidate is kept iff one
\* requested topic equals, case-insensitively, one of its repo_topics; with
\* topics unset or empty every candidate is kept; the predicate has no
\* clause on topics.
C19_TopicPostFilter ==
    Answered =>
        LET topics == engine_out.parsed.topics
            Kept(m) ==
                (topics # None /\ topics[1] # <<>>) =>
                    \E i \in 1 .. Len(topics[1]) :
                        \E t \in Range(m.metadata.repo_topics) :
                            EqualsIgnoreCase(topics[1][i], t)
        IN  /\ IdsOf(engine_out.results)
                 = {RetrievedBy[i].id : i \in {j \in 1 .. Len(RetrievedBy) :
                                                  Kept(RetrievedBy[j])}}
            /\ Len(engine_out.results) = Cardinality(IdsOf(engine_out.results))
            /\ \A i \in 1 .. Len(Conjuncts(engine_out.filter)) :
                  Conjuncts(engine_out.filter)[i].field \in FilterFields

C19_Witness ==
    /\ Answered
    /\ engine_out.parsed.topics = Some(<<"CLI">>)
    /\ engine_out.filter.op = "$ne"
    /\ Len(RetrievedBy) = 4
    /\ IdsOf(engine_out.results) = {1, 3}

\* the number of clauses the fields of a ParsedQuery call for
ApplicableClauses(parsed) ==
    (IF parsed.language # None /\ parsed.language # Some("") THEN 1 ELSE 0)
    + (IF parsed.min_stars # None /\ parsed.min_stars # Some(0) THEN 1 ELSE 0)
    + (IF parsed.max_stars # None /\ parsed.max_stars # Some(0) THEN 1 ELSE 0)
    + (IF parsed.labels = None THEN 0
       ELSE CountLabel(parsed.labels[1], "good first issue")
            + CountLabel(parsed.labels[1], "help wanted"))
    + (IF parsed.unassigned_only THEN 1 ELSE 0)
    + (IF parsed.days_ago # None /\ parsed.days_ago # Some(0) THEN 1 ELSE 0)
    + (IF parsed.difficulty = Some("beginner") THEN 1 ELSE 0)

IsTypeClause(c) == c.op = "$ne" /\ c.field = "type" /\ c.value = "stats"

\* C20: the predicate is never empty and contains type != "stats"; with no
\* conditional clause it is that clause, unwrapped; otherwise it is one $and
\* of at least two conjuncts, the type clause first, one per applicable field.
C20_PredicateStructure ==
    Answered =>
        LET f == engine_out.filter
            n == ApplicableClauses(engine_out.parsed)
        IN  IF n = 0 THEN IsTypeClause(f)
            ELSE /\ f.op = "$and"
                 /\ Len(f.value) >= 2
                 /\ Len(f.value) = n + 1
                 /\ IsTypeClause(f.value[1])
                 /\ \A i \in 2 .. Len(f.value) :
                       f.value[i].op # "$and" /\ ~IsTypeClause(f.value[i])

C20_Witness ==
    /\ Answered
    /\ engine_out.parsed.labels = Some(<<"Triage">>)
    /\ engine_out.parsed.min_stars = Some(0)
    /\ engine_out.parsed.topics = Some(<<"CLI">>)
    /\ ApplicableClauses(engine_out.parsed) = 0
    /\ IsTypeClause(engine_out.filter)
    /\ \E k \in 1 .. Len(engine_out.results) : engine_out.results[k].issue_id = 3

---------------------------------------------------------------------------
(* Ingestion: POST /api/ingest/start and the background task run_ingestion *)

MaxStarts == 3

\* the search side at rest, for the specifications of the other routes
SearchIdle ==
    /\ pc = "idle"
    /\ now \in {3 * MAX_AGE_DAYS * TicksPerDay}
    /\ score_in = None
    /\ score_out = None
    /\ query = None
    /\ llm = None
    /\ parse_out = None
    /\ upstream = None
    /\ index = <<>>
    /\ engine_out = None
    /\ response = None

searchSide == <<pc, now, score_in, score_out, query, llm, parse_out,
                upstream, index, engine_out, response>>

\* a task is "scheduled" from add_task until its thread enters run_ingestion,
\* "running" until it leaves, then "done"
Unfinished(task) == task # "done"

\* routes/ingest.py lines 102-133: the handler has no await, so it runs as
\* one step; the flag it tests is set by the task, not by the handler
start_ingestion(status, scheduled) ==
    IF status.running
    THEN [code |-> 400, tasks |-> scheduled]
    ELSE [code |-> 200, tasks |-> Append(scheduled, "scheduled")]

StartIngestion ==
    /\ Len(ingest_replies) < MaxStarts
    /\ LET out == start_ingestion(ingestion_status, tasks)
       IN  /\ tasks' = out.tasks
           /\ ingest_replies' = Append(ingest_replies, out.code)
    /\ UNCHANGED <<ingestion_status, trackVars, searchSide>>

\* run_ingestion line 43, on a thread of the pool after the response is sent
TaskBegin(i) ==
    /\ tasks[i] = "scheduled"
    /\ tasks' = [tasks EXCEPT ![i] = "running"]
    /\ ingestion_status' = [running |-> TRUE, message |-> "Starting ingestion..."]
    /\ UNCHANGED <<ingest_replies, trackVars, searchSide>>

\* lines 55 and 61: the message of whatever dict the global names now
TaskProgress(i) ==
    /\ tasks[i] = "running"
    /\ ingestion_status' = [ingestion_status EXCEPT !.message = "Processing..."]
    /\ UNCHANGED <<tasks, ingest_replies, trackVars, searchSide>>

\* lines 92-99: the task ends, completed or with an error
TaskEnd(i) ==
    /\ tasks[i] = "running"
    /\ tasks' = [tasks EXCEPT ![i] = "done"]
    /\ \E message \in {"Completed!", "Error"} :
          ingestion_status' = [running |-> FALSE, message |-> message]
    /\ UNCHANGED <<ingest_replies, trackVars, searchSide>>

InitIngest ==
    /\ SearchIdle
    /\ BackgroundInit

NextIngest ==
    \/ StartIngestion
    \/ \E i \in 1 .. Len(tasks) : TaskBegin(i)
    \/ \E i \in 1 .. Len(tasks) : TaskProgress(i)
    \/ \E i \in 1 .. Len(tasks) : TaskEnd(i)

SpecIngest == InitIngest /\ [][NextIngest]_vars

\* C16: at most one ingestion executes at any time, and while an accepted
\* ingestion has not finished no second run_ingestion task exists: a start
\* request in between is answered 400.
C16_OneIngestionAtATime ==
    /\ Cardinality({i \in 1 .. Len(tasks) : tasks[i] = "running"}) <= 1
    /\ Cardinality({i \in 1 .. Len(tasks) : Unfinished(tasks[i])}) <= 1

\* the flag does what the handler tests: once a task runs alone a start is
\* refused
IngestFlagFollowsTask ==
    (Cardinality({i \in 1 .. Len(tasks) : Unfinished(tasks[i])}) = 1
        /\ \E i \in 1 .. Len(tasks) : tasks[i] = "running"
        /\ Len(tasks) = 1)
    => ingestion_status.running

---------------------------------------------------------------------------
(* Issue tracking and PR verification: routes/issues.py, services/
   issue_tracker.py and scripts/verify_prs.py *)

MaxTracked == 2
MaxCronRuns == 1

\* the rows of the table "user": alice has changed her login since she signed
\* up, bob's row has no GitHub id, carol's has no username
UserIds == {"u1", "u2", "u3"}

UserRow(user_id) ==
    CASE user_id = "u1" -> [githubUsername |-> Some("alice-old"), githubId |-> Some(11)]
      [] user_id = "u2" -> [githubUsername |-> Some("Bob"), githubId |-> None]
      [] user_id = "u3" -> [githubUsername |-> None, githubId |-> Some(33)]

\* GET /repos/org/repo/pulls/{number} of the GitHub API: 1 is alice's merged
\* pull request, 2 is bob's merged one, 3 is alice's open one
PullNumbers == 1 .. 4

GitHubPull(number) ==
    CASE number = 1 ->
            [status_code |-> 200, merged |-> TRUE, login |-> "alice", id |-> 11]
      [] number = 2 ->
            [status_code |-> 200, merged |-> TRUE, login |-> "bob", id |-> 22]
      [] number = 3 ->
            [status_code |-> 200, merged |-> FALSE, login |-> "alice", id |-> 11]
      [] OTHER ->
            [status_code |-> 404, merged |-> FALSE, login |-> "", id |-> 0]

\* https://github.com/org/repo/<kind>/<number>, with or without a final "/"
Url(kind, number, slash) == [kind |-> kind, number |-> number, slash |-> slash]
PullUrl(number) == Url("pull", number, FALSE)

\* verify_prs.py lines 33-43: owner, repo and int(parts[3]); parts[2] is not
\* looked at
parse_pr_url(pr_url) == Some(pr_url.number)

\* routes/issues.py lines 136-137
pr_regex_match(pr_url) == pr_url.kind = "pull" /\ ~pr_url.slash

\* str.rstrip('/')
rstrip_slash(url) == [url EXCEPT !.slash = FALSE]

\* verify_prs.py lines 127-138
is_author_cron(user, pr) ==
    \/ user.githubId # None /\ pr.id # 0 /\ user.githubId[1] = pr.id
    \/ /\ TruthyStr(user.githubUsername)
       /\ pr.login # ""
       /\ Lower(user.githubUsername[1]) = Lower(pr.login)

\* routes/issues.py lines 246-257; the username is known to be non-empty
is_author_direct(user, pr) ==
    \/ user.githubId # None /\ pr.id # 0 /\ user.githubId[1] = pr.id
    \/ Lower(user.githubUsername[1]) = Lower(pr.login)

\* issue_tracker.py lines 20-32: TrackedIssue(...), status in_progress
NewRow(user_id, issue_url) ==
    [user_id |-> user_id, issue_url |-> issue_url, pr_url |-> None,
     status |-> "in_progress", check_count |-> 0, live |-> TRUE]

Live(rows) == {i \in 1 .. Len(rows) : rows[i].live}

\* a deleted row: nothing of it can be read again
Deleted ==
    [user_id |-> "", issue_url |-> None, pr_url |-> None, status |-> "",
     check_count |-> 0, live |-> FALSE]

\* the answer of a route to the request of user_id
TrackReply(route, user_id, code) ==
    Some([route |-> route, user_id |-> user_id, code |-> code])

\* POST /api/issues/track, routes/issues.py lines 76-101
TrackIssue ==
    \E user_id \in {"u1", "u2"}, issue_url \in {Url("issues", 7, FALSE)} :
        IF \E i \in Live(tracked) :
               tracked[i].user_id = user_id /\ tracked[i].issue_url = issue_url
        THEN /\ track_reply' = TrackReply("track", user_id, 409)
             /\ UNCHANGED <<tracked, cron, in_flight, ingestVars, searchSide>>
        ELSE /\ Len(tracked) < MaxTracked
             /\ tracked' = Append(tracked, NewRow(user_id, issue_url))
             /\ track_reply' = TrackReply("track", user_id, 200)
             /\ UNCHANGED <<cron, in_flight, ingestVars, searchSide>>

\* POST /api/issues/verify, routes/issues.py lines 132-152 and
\* issue_tracker.py lines 80-90
SubmitPR ==
    \E user_id \in {"u1", "u2"}, issue_id \in 1 .. MaxTracked,
       pr_url \in {PullUrl(1), PullUrl(3), Url("pull", 1, TRUE)} :
        IF ~pr_regex_match(pr_url)
        THEN /\ track_reply' = TrackReply("verify", user_id, 400)
             /\ UNCHANGED <<tracked, cron, in_flight, ingestVars, searchSide>>
        ELSE IF issue_id \notin Live(tracked)
        THEN /\ track_reply' = TrackReply("verify", user_id, 404)
             /\ UNCHANGED <<tracked, cron, in_flight, ingestVars, searchSide>>
        ELSE /\ tracked' = [tracked EXCEPT ![issue_id].pr_url = Some(pr_url),
                                           ![issue_id].status = "pr_submitted"]
             /\ track_reply' = TrackReply("verify", user_id, 200)
             /\ UNCHANGED <<cron, in_flight, ingestVars, searchSide>>

\* POST /api/issues/abandon, routes/issues.py lines 155-166 and
\* issue_tracker.py lines 106-113
AbandonIssue ==
    \E user_id \in {"u1", "u2"}, issue_id \in 1 .. MaxTracked :
        IF issue_id \notin Live(tracked)
        THEN /\ track_reply' = TrackReply("abandon", user_id, 404)
             /\ UNCHANGED <<tracked, cron, in_flight, ingestVars, searchSide>>
        ELSE /\ tracked' = [tracked EXCEPT ![issue_id] = Deleted]
             /\ track_reply' = TrackReply("abandon", user_id, 200)
             /\ UNCHANGED <<cron, in_flight, ingestVars, searchSide>>

\* routes/issues.py lines 196-288: the status the checks end in, 200 when
\* they all pass.  The pull request fetched is the one of pr_number
verify_pr_checks(rows, user_id, pr_url, pr_number, reachable) ==
    LET pr_data == GitHubPull(pr_number)
        clean_pr_url == rstrip_slash(pr_url)
    IN  IF ~reachable THEN 502
        ELSE IF pr_data.status_code = 404 THEN 404
        ELSE IF pr_data.status_code # 200 THEN 502
        ELSE IF ~pr_data.merged THEN 400
        ELSE IF user_id \notin UserIds THEN 400
        ELSE IF ~TruthyStr(UserRow(user_id).githubUsername) THEN 400
        ELSE IF ~is_author_direct(UserRow(user_id), pr_data) THEN 403
        ELSE IF \E i \in Live(rows) :
                    /\ rows[i].user_id = user_id
                    /\ \/ rows[i].issue_url = clean_pr_url
                       \/ rows[i].pr_url = Some(clean_pr_url)
        THEN 409
        ELSE 200

\* POST /api/issues/verify-pr, routes/issues.py lines 181-324
VerifyPRDirectly ==
    \E user_id \in UserIds \cup {"u9"},
       pr_url \in {PullUrl(1), PullUrl(2), Url("pull", 1, TRUE)},
       pr_number \in PullNumbers, reachable \in BOOLEAN :
        LET code == verify_pr_checks(tracked, user_id, pr_url, pr_number, reachable)
        IN  IF code # 200
            THEN /\ track_reply' = TrackReply("verify-pr", user_id, code)
                 /\ UNCHANGED <<tracked, cron, in_flight, ingestVars, searchSide>>
            ELSE /\ Len(tracked) < MaxTracked
                 /\ tracked' =
                       Append(tracked,
                              [NewRow(user_id, rstrip_slash(pr_url)) EXCEPT
                                  !.status = "verified",
                                  !.pr_url = Some(rstrip_slash(pr_url))])
                 /\ track_reply' = TrackReply("verify-pr", user_id, 200)
                 /\ UNCHANGED <<cron, in_flight, ingestVars, searchSide>>

\* verify_prs.py lines 75-92: the pending rows joined with their users
pending_rows(rows) ==
    LET Pending(i) ==
            /\ rows[i].live
            /\ rows[i].status = "pr_submitted"
            /\ rows[i].pr_url # None
            /\ rows[i].user_id \in UserIds
        ids == SelectSeq([i \in 1 .. Len(rows) |-> i], Pending)
    IN  [k \in 1 .. Len(ids) |->
            [id |-> ids[k], pr_url |-> rows[ids[k]].pr_url[1],
             user |-> UserRow(rows[ids[k]].user_id)]]

\* an UPDATE ... WHERE id = :id, on a row that may be gone by now
update_row(rows, id, status) ==
    IF id \notin Live(rows) THEN rows
    ELSE [rows EXCEPT ![id].status = status,
                      ![id].check_count = rows[id].check_count + 1]

\* verify_prs.py lines 107-190 for one row of the batch: the status the row
\* is given
cron_verdict(row, reachable, current) ==
    LET parsed == parse_pr_url(row.pr_url)
        pr_info == GitHubPull(parsed[1])
    IN  IF ~reachable \/ pr_info.status_code # 200 THEN current
        ELSE IF ~is_author_cron(row.user, pr_info) THEN "abandoned"
        ELSE IF pr_info.merged THEN "verified"
        ELSE current

\* the script starts and reads the pending rows
CronSelect ==
    /\ cron.phase = "idle"
    /\ cron.runs < MaxCronRuns
    /\ cron' = [phase |-> "running", pending |-> pending_rows(tracked),
                runs |-> cron.runs + 1]
    /\ UNCHANGED <<tracked, track_reply, in_flight, ingestVars, searchSide>>

\* one turn of the loop: fetch the pull request, update the row
CronVerify ==
    /\ cron.phase = "running"
    /\ cron.pending # <<>>
    /\ \E reachable \in BOOLEAN :
          LET row == Head(cron.pending)
              current == IF row.id \in Live(tracked)
                         THEN tracked[row.id].status ELSE "gone"
          IN  tracked' = update_row(tracked, row.id,
                                    cron_verdict(row, reachable, current))
    /\ cron' = [cron EXCEPT !.pending = Tail(cron.pending)]
    /\ UNCHANGED <<track_reply, in_flight, ingestVars, searchSide>>

\* lines 192-200: commit and close
CronCommit ==
    /\ cron.phase = "running"
    /\ cron.pending = <<>>
    /\ cron' = [cron EXCEPT !.phase = "idle"]
    /\ UNCHANGED <<tracked, track_reply, in_flight, ingestVars, searchSide>>

InitTrack ==
    /\ SearchIdle
    /\ BackgroundInit

NextTrack ==
    \/ TrackIssue
    \/ SubmitPR
    \/ AbandonIssue
    \/ VerifyPRDirectly
    \/ CronSelect
    \/ CronVerify
    \/ CronCommit

SpecTrack == InitTrack /\ [][NextTrack]_vars

\* what the claim asks of a verified row: GitHub reports the row's pull
\* request as merged, by the GitHub account of the row's user
MergedByOwner(row) ==
    /\ row.pr_url # None
    /\ row.user_id \in UserIds
    /\ LET pr == GitHubPull(row.pr_url[1].number)
           user == UserRow(row.user_id)
       IN  /\ pr.status_code = 200
           /\ pr.merged
           /\ \/ user.githubId = Some(pr.id)
              \/ /\ user.githubUsername # None
                 /\ Lower(user.githubUsername[1]) = Lower(pr.login)

\* C17: a tracked issue is "verified" only if GitHub reported its pull
\* request as merged and authored by the tracking user (by GitHub id or, in
\* any case, username), whether the cron or the verify-pr route verified it.
C17_VerifiedOnlyIfMergedByOwner ==
    \A i \in Live(tracked) :
        tracked[i].status = "verified" => MergedByOwner(tracked[i])

---------------------------------------------------------------------------
(* Star bounds and the unassigned flag, checked under SpecFilter *)

HasClause(f, field, op, value) ==
    \E i \in 1 .. Len(Conjuncts(f)) :
        /\ Conjuncts(f)[i].field = field
        /\ Conjuncts(f)[i].op = op
        /\ Conjuncts(f)[i].value = value

\* C21: for every set min_stars the predicate contains repo_stars >=
\* min_stars, for every set max_stars (0 included) it contains repo_stars <=
\* max_stars, and no result has more stars than max_stars.
C21_StarBounds ==
    Answered =>
        LET parsed == engine_out.parsed
        IN  /\ parsed.min_stars # None =>
                  HasClause(engine_out.filter, "repo_stars", "$gte", parsed.min_stars[1])
            /\ parsed.max_stars # None =>
                  /\ HasClause(engine_out.filter, "repo_stars", "$lte",
                               parsed.max_stars[1])
                  /\ \A k \in 1 .. Len(engine_out.results) :
                        engine_out.results[k].repo_stars <= parsed.max_stars[1]

\* for star bounds other than 0 the range is compiled and enforced
StarBoundsNonZero ==
    Answered =>
        LET parsed == engine_out.parsed
        IN  /\ (parsed.min_stars # None /\ parsed.min_stars[1] # 0) =>
                  /\ HasClause(engine_out.filter, "repo_stars", "$gte",
                               parsed.min_stars[1])
                  /\ \A k \in 1 .. Len(engine_out.results) :
                        engine_out.results[k].repo_stars >= parsed.min_stars[1]
            /\ (parsed.max_stars # None /\ parsed.max_stars[1] # 0) =>
                  /\ HasClause(engine_out.filter, "repo_stars", "$lte",
                               parsed.max_stars[1])
                  /\ \A k \in 1 .. Len(engine_out.results) :
                        engine_out.results[k].repo_stars <= parsed.max_stars[1]

\* C22: the normalized unassigned_only is true exactly when the inferred flag
\* or the override is true; then the predicate contains is_assigned == false
\* and no assigned issue is returned; a false override clears nothing.
C22_UnassignedOneWay ==
    Answered =>
        LET wanted == Inferred.unassigned_only \/ query.unassigned_only
        IN  /\ engine_out.parsed.unassigned_only = wanted
            /\ wanted = HasClause(engine_out.filter, "is_assigned", "$eq", FALSE)
            /\ wanted => \A k \in 1 .. Len(engine_out.results) :
                            ~engine_out.results[k].is_assigned

C22_Witness ==
    /\ Answered
    /\ Inferred.unassigned_only
    /\ ~query.unassigned_only
    /\ query.labels = Some(<<"Triage">>)
    /\ query.language = Some("all")
    /\ engine_out.parsed.unassigned_only
    /\ HasClause(engine_out.filter, "is_assigned", "$eq", FALSE)
    /\ Len(engine_out.results) > 0

---------------------------------------------------------------------------
(* Ingestion writes: scripts/ingest_graphql.py and PineconeClient *)

MaxBatch == 2

IssueKeys == {1, 2, 3}

\* what GitHub's search returns for an issue at some moment: its timestamps
\* are GraphQL DateTime strings, which end in "Z"
IssueNodes(at) ==
    [key : IssueKeys,
     updatedAt : {[t |-> at - d * TicksPerDay, suffix |-> "Z"] : d \in {0, 1}}]

\* _node_to_metadata and Issue(...): the metadata with its computed fields
issue_object(node, at) ==
    IssueMatch(node.key, 0, 40,
               [t |-> at - 10 * node.key * TicksPerDay, suffix |-> "Z"],
               node.updatedAt, <<>>, <<>>, Some("Python"), FALSE)

\* pinecone_client.py lines 156-189: the metadata of the ids that exist; a
\* failed fetch is logged and leaves the dict empty
fetch_by_ids(records, ids, reachable) ==
    IF ~reachable THEN {}
    ELSE {records[i] : i \in {j \in 1 .. Len(records) : records[j].id \in ids}}

\* ingest_graphql.py lines 148-166: the new and the changed issues
issues_to_process(issues, existing) ==
    LET Process(node) ==
            \A rec \in existing :
                rec.id = node.key => rec.metadata.updated_at # node.updatedAt
    IN  SelectSeq(issues, Process)

\* an upsert that overwrites the strings of a stored record and keeps its
\* other fields
RECURSIVE upsert_strings_only(_, _)
upsert_strings_only(records, issues) ==
    IF issues = <<>> THEN records
    ELSE LET issue == Head(issues)
             stored == {i \in 1 .. Len(records) : records[i].id = issue.id}
         IN  upsert_strings_only(
                 IF stored = {} THEN Append(records, issue)
                 ELSE [i \in 1 .. Len(records) |->
                          IF i \in stored
                          THEN [records[i] EXCEPT
                                   !.metadata.created_at = issue.metadata.created_at,
                                   !.metadata.updated_at = issue.metadata.updated_at]
                          ELSE records[i]],
                 Tail(issues))

\* pinecone_client.py lines 48-71: each vector replaces the one of its id,
\* metadata and all, or is added
RECURSIVE upsert_issues(_, _)
upsert_issues(records, issues) ==
    IF issues = <<>> THEN records
    ELSE LET issue == Head(issues)
             stored == {i \in 1 .. Len(records) : records[i].id = issue.id}
         IN  upsert_issues(
                 IF stored = {} THEN Append(records, issue)
                 ELSE [i \in 1 .. Len(records) |->
                          IF i \in stored THEN issue ELSE records[i]],
                 Tail(issues))

\* ingest_graphql.py lines 116-192, one turn of the loop over languages and
\* labels: search, skip the unchanged, embed, upsert.  An exception of the
\* embedder ends the turn with nothing written
ingest_turn(records, issues, reachable, embedded, at) ==
    LET ids == {issues[i].key : i \in 1 .. Len(issues)}
        existing == fetch_by_ids(records, ids, reachable)
        to_process == issues_to_process(issues, existing)
        issue_objects == [i \in 1 .. Len(to_process) |-> issue_object(to_process[i], at)]
        known == {rec.id : rec \in existing}
        changed == Cardinality({i \in 1 .. Len(to_process) : to_process[i].key \in known})
    IN  [index |-> IF embedded THEN upsert_issues(records, issue_objects) ELSE records,
         report |-> [written |-> embedded /\ to_process # <<>>,
                     new |-> Len(to_process) - changed,
                     changed |-> changed,
                     skipped |-> Len(issues) - Len(to_process)]]

\* the issues of one search: no issue twice
Batches(at) ==
    {batch \in SeqsUpTo(IssueNodes(at), MaxBatch) :
        \A i, j \in 1 .. Len(batch) : i # j => batch[i].key # batch[j].key}

IngestTurn ==
    /\ pc = "idle"
    /\ \E issues \in Batches(now), reachable \in BOOLEAN, embedded \in BOOLEAN :
          LET out == ingest_turn(index, issues, reachable, embedded, now)
          IN  /\ index' = out.index
              /\ response' = Some(out.report)
    /\ UNCHANGED <<backgroundVars, pc, now, scoreVars, query, llm, parse_out,
                   upstream, engine_out>>

InitUpsert ==
    /\ SearchIdle
    /\ BackgroundInit

NextUpsert == IngestTurn

SpecUpsert == InitUpsert /\ [][NextUpsert]_vars

\* C25: after any sequence of ingestion writes every record of the index has
\* created_at_ts and updated_at_ts equal to the parse of its stored created_at
\* and updated_at strings, and one record per issue.
C25_TimestampsFollowStrings ==
    /\ \A i \in 1 .. Len(index) :
          LET md == index[i].metadata
          IN  /\ md.created_at.suffix = "Z"
              /\ md.updated_at.suffix = "Z"
              /\ md.created_at_ts = md.created_at.t
              /\ md.updated_at_ts = md.updated_at.t
    /\ \A i, j \in 1 .. Len(index) : i # j => index[i].id # index[j].id

C25_Witness ==
    /\ response # None
    /\ response[1].written
    /\ response[1].changed = 1
    /\ response[1].skipped = 1
    /\ Len(index) = 2
    /\ index[1].metadata.updated_at.t = now
    /\ index[1].metadata.updated_at_ts = now

---------------------------------------------------------------------------
(* Ordering of the feed, checked under SpecFeed *)

FeedSortBy == IF "sort_by" \in DOMAIN query THEN query.sort_by ELSE "newest"

\* the candidates the feed keeps: the window the index returns for the
\* filter, less the issues without a requested label
FeedKept ==
    recent_results(recent_search(index, RECENT_TOP_K, engine_out.filter),
                   IF "labels" \in DOMAIN query THEN query.labels ELSE None, now)

\* a precedes b in the order of the mode: its key is the greater one
FeedPrecedes(a, b) ==
    CASE FeedSortBy = "newest" -> StrLess(b.created_at, a.created_at)
      [] FeedSortBy = "recently_discussed" -> StrLess(b.updated_at, a.updated_at)
      [] FeedSortBy = "stars" -> b.repo_stars < a.repo_stars
      [] OTHER -> b.score < a.score

\* C23: the feed orders all kept candidates before truncating: descending
\* created_at for "newest", updated_at for "recently_discussed", repo_stars
\* for "stars", combined score for any other value; the returned items are
\* the first limit items of that ordering and no kept candidate left out
\* precedes a returned one.
C23_FeedOrderedThenCut ==
    FeedReturned =>
        LET ordered == engine_out.ordered
            results == engine_out.results
        IN  /\ Len(ordered) = Len(FeedKept)
            /\ IdsOf(ordered) = IdsOf(FeedKept)
            /\ \A i, j \in 1 .. Len(ordered) :
                  i < j => ~FeedPrecedes(ordered[j], ordered[i])
            /\ Len(results) = Min(query.limit, Len(ordered))
            /\ \A i \in 1 .. Len(results) : results[i] = ordered[i]
            /\ \A i \in 1 .. Len(results) :
                  \A j \in Len(results) + 1 .. Len(ordered) :
                      ~FeedPrecedes(ordered[j], results[i])

C23_Witness ==
    /\ FeedReturned
    /\ FeedSortBy = "newest"
    /\ query.limit = 1
    /\ Len(index) = 2
    /\ Len(engine_out.ordered) = 2
    /\ engine_out.ordered[1].issue_id = index[2].id
    /\ engine_out.ordered[1].score < engine_out.ordered[2].score
    /\ engine_out.results = <<engine_out.ordered[1]>>

---------------------------------------------------------------------------
(* Ranked search and the feed together: the order of equal keys *)

InitOrder == InitSearch \/ (InitFeed /\ pc = "engine")

NextOrder == SearchRoute \/ RecentEngine

SpecOrder == InitOrder /\ [][NextOrder]_vars

Ordered == (pc = "responded" \/ pc = "returned") /\ ~engine_out.raised

\* the list either method has after its sort
OrderedOut == IF pc = "responded" THEN engine_out.results ELSE engine_out.ordered

\* the key that sort compared
OrderedKey ==
    IF pc = "responded" THEN sort_key(engine_out.parsed.sort_by)
    ELSE recent_sort_key(FeedSortBy)

\* the same window processed by a request at another time
OrderedAt(at) ==
    IF pc = "responded" THEN process_results(Retrieved, engine_out.parsed, at)
    ELSE SortDesc(
             recent_results(recent_search(index, RECENT_TOP_K, engine_out.filter),
                            IF "labels" \in DOMAIN query THEN query.labels ELSE None,
                            at),
             recent_sort_key(FeedSortBy))

IdSeq(seq) == [i \in 1 .. Len(seq) |-> seq[i].issue_id]

\* candidates of equal key are in the order of the index, whose ids count
\* its positions
EqualKeysKeepIndexOrder ==
    \A i, j \in 1 .. Len(OrderedOut) :
        (/\ i < j
         /\ ~KeyLess(OrderedOut[i], OrderedOut[j], OrderedKey)
         /\ ~KeyLess(OrderedOut[j], OrderedOut[i], OrderedKey))
        => OrderedOut[i].issue_id < OrderedOut[j].issue_id

---------------------------------------------------------------------------
(* The cleanup run: scripts/cleanup_closed_issues.py *)

MaxCleanup == 2

IssueStates == {"OPEN", "CLOSED", "GONE"}

\* what the GraphQL endpoint answers for the issues of one repository
ReplyKinds ==
    {"answered", "repository_gone", "repository_forbidden", "data_null",
     "no_data", "http_error"}

Determined == {"answered", "repository_gone"}

GraphQLError(type, path) == [type |-> type, path |-> path]

\* the body of the response: null for an issue that does not exist, and for
\* the repository when it cannot be resolved
github_result(kind, truth, numbers) ==
    CASE kind = "answered" ->
            [errors |-> {GraphQLError("NOT_FOUND", <<"repository", "issue">>) :
                            n \in {m \in numbers : truth[m] = "GONE"}},
             data |-> Present(Some([repository |->
                         Some([n \in numbers |->
                                 IF truth[n] = "GONE" THEN None
                                 ELSE Some(truth[n])])]))]
      [] kind = "repository_gone" ->
            [errors |-> {GraphQLError("NOT_FOUND", <<"repository">>)},
             data |-> Present(Some([repository |-> None]))]
      [] kind = "repository_forbidden" ->
            [errors |-> {GraphQLError("FORBIDDEN", <<"repository">>)},
             data |-> Present(Some([repository |-> None]))]
      [] kind = "data_null" ->
            [errors |-> {GraphQLError("INTERNAL", <<>>)}, data |-> Present(None)]
      [] kind = "no_data" ->
            [errors |-> {GraphQLError("INTERNAL", <<>>)}, data |-> Absent]

\* graphql_fetcher.py lines 662-726; _execute_query raises for a failed HTTP
\* call, and result.get("data", {}) is None for "data": null, whose .get raises
batch_check_repo_issues(kind, truth, numbers) ==
    IF kind = "http_error" THEN [raised |-> TRUE, states |-> <<>>]
    ELSE LET result == github_result(kind, truth, numbers)
             all_not_found == [n \in numbers |-> "NOT_FOUND"]
         IN  IF \E error \in result.errors :
                    error.type = "NOT_FOUND" /\ error.path = <<"repository">>
             THEN [raised |-> FALSE, states |-> all_not_found]
             ELSE IF result.data = Present(None)
             THEN [raised |-> TRUE, states |-> <<>>]
             ELSE IF result.data = Absent \/ result.data[1][1].repository = None
             THEN [raised |-> FALSE, states |-> all_not_found]
             ELSE [raised |-> FALSE,
                   states |-> [n \in numbers |->
                      LET issue_data == result.data[1][1].repository[1][n]
                      IN  IF issue_data = None THEN "NOT_FOUND" ELSE issue_data[1]]]

\* graphql_fetcher.py lines 588-660, for ids of one repository
batch_check_issue_states(issue_ids, kind, truth) ==
    LET numbers == Range(issue_ids)
        out == batch_check_repo_issues(kind, truth, numbers)
    IN  [n \in numbers |-> IF out.raised THEN "ERROR" ELSE out.states[n]]

\* pinecone_client.py lines 191-215: a failed delete is logged
delete_by_ids(records, ids, delete_ok) ==
    IF delete_ok
    THEN SelectSeq(records, LAMBDA rec : rec.id \notin Range(ids))
    ELSE records

\* pinecone_client.py lines 105-133
list_all_ids(records) == [i \in 1 .. Len(records) |-> records[i].id]

\* cleanup_closed_issues.py lines 80-166
cleanup(records, args, kind, truth, delete_ok) ==
    LET listed == list_all_ids(records)
        all_ids == IF TruthyNum(args.limit)
                   THEN PySlice(listed, 0, args.limit[1]) ELSE listed
        states == batch_check_issue_states(all_ids, kind, truth)
        With(state) == SelectSeq(all_ids, LAMBDA id : states[id] = state)
        ids_to_delete == With("CLOSED") \o With("NOT_FOUND")
    IN  [index |-> IF ids_to_delete # <<>> /\ ~args.dry_run
                   THEN delete_by_ids(records, ids_to_delete, delete_ok)
                   ELSE records,
         report |-> [listed |-> listed, all_ids |-> all_ids,
                     open_ids |-> With("OPEN"), error_ids |-> With("ERROR"),
                     ids_to_delete |-> ids_to_delete]]

Cleanup ==
    /\ pc = "cleanup"
    /\ LET out == cleanup(index, query, upstream.kind, upstream.truth,
                          upstream.delete_ok)
       IN  /\ index' = out.index
           /\ response' = Some(out.report)
    /\ pc' = "cleaned"
    /\ UNCHANGED <<backgroundVars, now, scoreVars, query, llm, parse_out,
                   upstream, engine_out>>

CleanupArgs == [dry_run : BOOLEAN, limit : {None, Some(1)}]

InitCleanup ==
    /\ pc = "cleanup"
    /\ now \in {3 * MAX_AGE_DAYS * TicksPerDay}
    /\ score_in = None
    /\ score_out = None
    /\ llm = None
    /\ parse_out = None
    /\ engine_out = None
    /\ response = None
    /\ query \in CleanupArgs
    /\ \E n \in 1 .. MaxCleanup :
          /\ index = [i \in 1 .. n |->
                        issue_object([key |-> i,
                                      updatedAt |-> [t |-> now - TicksPerDay,
                                                     suffix |-> "Z"]], now)]
          /\ upstream \in [kind : ReplyKinds, truth : [1 .. n -> IssueStates],
                           delete_ok : BOOLEAN]
    /\ BackgroundInit

NextCleanup == Cleanup

SpecCleanup == InitCleanup /\ [][NextCleanup]_vars

Cleaned == pc = "cleaned"

StoredIds == {index[i].id : i \in 1 .. Len(index)}

\* C26: the cleanup run deletes exactly the records it examined whose issue
\* GitHub reports as closed or nonexistent: a record whose issue is open, or
\* whose state could not be determined because the call failed or returned
\* errors, is never deleted, and with --dry-run no record is deleted.
C26_DeletesOnlyClosedOrMissing ==
    Cleaned =>
        LET report == response[1]
            deleted == Range(report.listed) \ StoredIds
        IN  /\ query.dry_run => deleted = {}
            /\ \A id \in deleted :
                  /\ upstream.kind \in Determined
                  /\ upstream.kind = "answered" => upstream.truth[id] # "OPEN"
            /\ (~query.dry_run /\ upstream.delete_ok /\ upstream.kind \in Determined) =>
                  \A id \in Range(report.all_ids) :
                      (upstream.kind = "repository_gone" \/ upstream.truth[id] # "OPEN")
                      => id \in deleted

\* what the run does keep: with --dry-run nothing is deleted, a record GitHub
\* answered OPEN for is never deleted, and nothing is deleted when the call
\* raised
CleanupKeepsOpenAndRaised ==
    Cleaned =>
        LET deleted == Range(response[1].listed) \ StoredIds
        IN  /\ query.dry_run => deleted = {}
            /\ upstream.kind \in {"http_error", "data_null"} => deleted = {}
            /\ upstream.kind = "answered" =>
                  \A id \in deleted : upstream.truth[id] # "OPEN"

---------------------------------------------------------------------------
(* Concurrent requests to POST /api/issues/track: the handler is a plain
   def, which FastAPI runs on a thread pool, each request with a session of
   its own *)

TrackRequests ==
    [user_id : {"u1", "u2"}, issue_url : {Url("issues", 7, FALSE), PullUrl(1)}]

\* routes/issues.py lines 79-84: the query for an existing row, and the 409
TrackCheck ==
    \E request \in TrackRequests :
        IF \E i \in Live(tracked) :
               /\ tracked[i].user_id = request.user_id
               /\ tracked[i].issue_url = request.issue_url
        THEN /\ track_reply' = TrackReply("track", request.user_id, 409)
             /\ UNCHANGED <<tracked, cron, in_flight, ingestVars, searchSide>>
        ELSE /\ Len(tracked) + Len(in_flight) < MaxTracked
             /\ in_flight' = Append(in_flight, request)
             /\ UNCHANGED <<tracked, cron, track_reply, ingestVars, searchSide>>

\* routes/issues.py lines 86-100 and issue_tracker.py lines 20-32: the insert
\* and the commit of a request that found no row
TrackInsert ==
    \E k \in 1 .. Len(in_flight) :
        /\ tracked' = Append(tracked, NewRow(in_flight[k].user_id,
                                             in_flight[k].issue_url))
        /\ in_flight' = SubSeq(in_flight, 1, k - 1)
                        \o SubSeq(in_flight, k + 1, Len(in_flight))
        /\ track_reply' = TrackReply("track", in_flight[k].user_id, 200)
        /\ UNCHANGED <<cron, ingestVars, searchSide>>

NextRace == TrackCheck \/ TrackInsert \/ VerifyPRDirectly

SpecRace == InitTrack /\ [][NextRace]_vars

\* C27: under every interleaving of concurrent track and verify-pr requests
\* a user never has two tracked-issue records with the same issue_url.
C27_NoDuplicateTracking ==
    \A i, j \in Live(tracked) :
        (tracked[i].user_id = tracked[j].user_id
         /\ tracked[i].issue_url = tracked[j].issue_url) => i = j

\* requests handled one after the other leave no duplicate: checked under
\* SpecTrack, whose track requests check and insert in one step
NoDuplicateWhenSerial == in_flight = <<>> /\ C27_NoDuplicateTracking

---------------------------------------------------------------------------
(* The life of a tracked issue and who may change it, checked under
   SpecTrack *)

StatusRank(status) ==
    CASE status = "in_progress" -> 0
      [] status = "pr_submitted" -> 1
      [] status = "verified" -> 2
      [] status = "abandoned" -> 2
      [] OTHER -> 3

\* C29: "verified" is terminal: no request and no cron run changes the status
\* of a verified record, and the status of a record only moves forward along
\* in_progress -> pr_submitted -> verified or abandoned.
C29_VerifiedIsTerminal ==
    [][\A i \in Live(tracked) :
          (i \in DOMAIN tracked' /\ tracked'[i].live) =>
             /\ tracked[i].status = "verified" => tracked'[i].status = "verified"
             /\ StatusRank(tracked'[i].status) >= StatusRank(tracked[i].status)]_vars

\* the cron moves no record backward: a record it updates keeps its status or
\* goes from pr_submitted to verified or abandoned
CronMovesForward ==
    [][cron' # cron =>
          \A i \in Live(tracked) :
              (i \in DOMAIN tracked' /\ tracked'[i].live) =>
                  StatusRank(tracked'[i].status) >= StatusRank(tracked[i].status)]_vars

\* C30: a submit-PR or abandon request carrying user_id A changes or deletes
\* a record only if the record's user_id is A.
C30_OnlyOwnerModifies ==
    [][(/\ cron' = cron
        /\ track_reply' # None
        /\ track_reply'[1].route \in {"verify", "abandon"}) =>
          \A i \in Live(tracked) :
              tracked'[i] # tracked[i] =>
                  tracked[i].user_id = track_reply'[1].user_id]_vars

---------------------------------------------------------------------------
(* The prompt's schema against the model's, checked under SpecParse *)

\* SYSTEM_PROMPT, query_parser.py lines 18-28: the values the prompt asks for
PromptSortBy == {"stars", "recency", "relevance"}

FollowsPrompt(obj) ==
    /\ \A k \in ParsedQueryFields : obj[k] # Absent
    /\ obj.semantic_query[1] # None
    /\ obj.sort_by[1] # None
    /\ obj.sort_by[1][1] \in PromptSortBy
    /\ obj.difficulty[1] # None => obj.difficulty[1][1] \in DifficultyLiteral
    /\ obj.unassigned_only[1] # None

Carried(obj, value) ==
    /\ value.semantic_query = obj.semantic_query[1][1]
    /\ value.language = obj.language[1]
    /\ value.min_stars = obj.min_stars[1]
    /\ value.max_stars = obj.max_stars[1]
    /\ value.labels = obj.labels[1]
    /\ value.difficulty = obj.difficulty[1]
    /\ value.days_ago = obj.days_ago[1]
    /\ value.unassigned_only = obj.unassigned_only[1][1]
    /\ value.topics = obj.topics[1]

\* C28: for well-formed JSON that follows the prompt's schema (sort_by one of
\* "stars", "recency", "relevance") parse returns a ParsedQuery carrying the
\* response's language, star bounds, labels, difficulty, days_ago,
\* unassigned_only and topics; the fallback is for failed calls and malformed
\* output only.
C28_PromptRepliesCarried ==
    (/\ pc = "parsed"
     /\ llm.call = "ok"
     /\ llm.text.fence = ""
     /\ llm.text.body = "object"
     /\ FollowsPrompt(llm.text.obj))
    => /\ ~parse_out.raised
       /\ Carried(llm.text.obj, parse_out.value)

\* the replies that are carried: those whose sort_by is a value of
\* ParsedQuery too
PromptRepliesCarriedWhenSortKnown ==
    (/\ pc = "parsed"
     /\ llm.call = "ok"
     /\ llm.text.fence = ""
     /\ llm.text.body = "object"
     /\ FollowsPrompt(llm.text.obj)
     /\ llm.text.obj.sort_by[1][1] \in SortByLiteral)
    => /\ ~parse_out.raised
       /\ Carried(llm.text.obj, parse_out.value)
       /\ parse_out.value.sort_by = llm.text.obj.sort_by[1][1]

====
